---- MODULE Spec2Model ----
(***************************************************************************)
(* Model of the streaming transcoder of src/src/transform/mod.rs:          *)
(* format_streaming_response reads the upstream OpenAI-style SSE byte      *)
(* stream chunk by chunk, splits it into lines, feeds every decoded delta  *)
(* to process_stream_delta (which mutates a StreamingState) and collects   *)
(* the Anthropic-style events in output_lines.                             *)
(*                                                                         *)
(* Conventions.  Option<T> is a sequence of length 0 (None) or 1 (Some).   *)
(* A Rust String is a sequence of characters, so push_str and + are \o.    *)
(* A HashMap is a function whose DOMAIN is the set of its keys.            *)
(***************************************************************************)
EXTENDS Integers, Sequences, FiniteSets, TLC

\* ------------------------------------------------------------------ bounds
\* number of writes (a line, or a part of a line) the upstream makes
MaxWrites == 3

\* ------------------------------------------------------------- Option<T>
NoneV == <<>>
Some(x) == <<x>>
IsSome(o) == o # <<>>

\* --------------------------------------------- upstream lines (the input)
\* One tool-call fragment of delta.tool_calls (models::OpenAIToolCall).
ToolCall(id, name, arguments) ==
    [id |-> id, name |-> name, arguments |-> arguments]

\* The delta object of the first choice (models::OpenAIDelta).
Delta(tool_calls, content) == [tool_calls |-> tool_calls, content |-> content]

\* A line of the upstream body.  kind "other" does not start with "data: ",
\* "done" is `data: [DONE]`, "badjson" is a data line whose payload is not
\* JSON, "json" is a data line whose payload parses; choices is then
\* parsed["choices"].as_array() and each choice holds choice.get("delta").
Line(kind, choices) == [kind |-> kind, choices |-> choices]

OtherLine == Line("other", NoneV)
DoneLine == Line("done", NoneV)
BadJsonLine == Line("badjson", NoneV)
NoChoicesLine == Line("json", NoneV)
EmptyChoicesLine == Line("json", Some(<<>>))
NoDeltaLine == Line("json", Some(<<[delta |-> NoneV]>>))
DeltaLine(d) == Line("json", Some(<<[delta |-> Some(d)]>>))

TextLine(s) == DeltaLine(Delta(NoneV, Some(s)))
ToolLine(tcs) == DeltaLine(Delta(Some(tcs), NoneV))

\* tool-call fragments the upstream sends
TcOpen1 == ToolCall(Some("t1"), Some("f1"), NoneV)
TcOpen1Args == ToolCall(Some("t1"), Some("f1"), Some(<<"x">>))
TcOpen2 == ToolCall(Some("t2"), NoneV, Some(<<"y">>))
TcArgs == ToolCall(NoneV, NoneV, Some(<<"z">>))

TextLines == {TextLine(<<"a">>), TextLine(<<"b">>)}

ToolLines ==
    { ToolLine(<<TcOpen1Args>>), ToolLine(<<TcOpen1, TcOpen2>>),
      DeltaLine(Delta(Some(<<TcArgs>>), Some(<<"c">>))),
      DeltaLine(Delta(Some(<<>>), Some(<<"d">>))) }

SkippedLines == {BadJsonLine, NoChoicesLine, EmptyChoicesLine, NoDeltaLine}

LineSet == SkippedLines \cup {DoneLine} \cup TextLines \cup ToolLines

\* the lines a chunk boundary may separate from their end
CutLines == {TextLine(<<"b">>), DoneLine, ToolLine(<<TcOpen1Args>>)}

\* ------------------------------------------------------ bytes of the body
\* The body is a sequence of atoms: a newline, a whole line, or the head or
\* the tail of a line that a chunk boundary cuts in two.
NL == [part |-> "nl", line |-> OtherLine]
Whole(l) == [part |-> "whole", line |-> l]
LineHead(l) == [part |-> "head", line |-> l]
LineTail(l) == [part |-> "tail", line |-> l]

\* buffer.split('\n'): the segments between newlines; the last one is the
\* text after the last newline (empty when the text ends with a newline).
RECURSIVE SplitNL(_, _, _)
SplitNL(s, cur, acc) ==
    IF s = <<>> THEN Append(acc, cur)
    ELSE IF s[1].part = "nl"
         THEN SplitNL(Tail(s), <<>>, Append(acc, cur))
         ELSE SplitNL(Tail(s), Append(cur, s[1]), acc)

split(s) == SplitNL(s, <<>>, <<>>)

\* What the text of one segment reads as: a line cut in two reads as that
\* line once both halves are there; a head alone starts with "data: " but
\* is not JSON, anything else does not start with "data: ".
ParseLine(seg) ==
    IF Len(seg) = 1 /\ seg[1].part = "whole" THEN seg[1].line
    ELSE IF Len(seg) = 2 /\ seg[1].part = "head" /\ seg[2].part = "tail"
            /\ seg[1].line = seg[2].line THEN seg[1].line
    ELSE IF Len(seg) >= 1 /\ seg[1].part = "head" THEN BadJsonLine
    ELSE OtherLine

\* A line is also cut inside a character of several bytes: the head ends
\* with the first byte of the character, the tail starts with its second.
CharHead(l) == [part |-> "char_head", line |-> l]
CharTail(l) == [part |-> "char_tail", line |-> l]

\* The line that is read when each byte of a two-byte character of its
\* content has become U+FFFD.
Lossy(l) ==
    IF l.kind = "json" /\ IsSome(l.choices) /\ l.choices[1] # <<>>
       /\ IsSome(l.choices[1][1].delta)
       /\ IsSome(l.choices[1][1].delta[1].content)
    THEN LET delta == l.choices[1][1].delta[1]
             RECURSIVE Replaced(_)
             Replaced(chars) ==
                 IF chars = <<>> THEN <<>>
                 ELSE (IF chars[1] = "U+00E9" THEN <<"U+FFFD", "U+FFFD">>
                       ELSE <<chars[1]>>) \o Replaced(Tail(chars))
         IN DeltaLine(Delta(delta.tool_calls, Some(Replaced(delta.content[1]))))
    ELSE l

\* String::from_utf8_lossy(&chunk): the bytes of a character that the chunk
\* holds in part are not valid UTF-8 and become U+FFFD each, in the chunk
\* that ends inside the character and in the chunk that starts inside it.
from_utf8_lossy(chunk) ==
    [i \in 1..Len(chunk) |->
        IF chunk[i].part = "char_head" THEN LineHead(Lossy(chunk[i].line))
        ELSE IF chunk[i].part = "char_tail" THEN LineTail(Lossy(chunk[i].line))
        ELSE chunk[i]]

\* ------------------------------------------------------- emitted events
\* format_sse_event: "event: <type>\ndata: <json>\n\n", one SSE frame; a
\* String of frames is the sequence of its frames.
format_sse_event(event_type, data) ==
    <<[event |-> event_type, data |-> data]>>

\* The message_start event of a response that reports `model`.
MessageStartFor(model) ==
    [type |-> "message_start", role |-> "assistant", model |-> model,
     input_tokens |-> 1, output_tokens |-> 1]

\* The model argument of the run of the streaming transcoder alone.
StreamModel == <<"h", "a", "i", "k", "u">>

MessageStart == MessageStartFor(StreamModel)
ContentBlockStop(index) == [type |-> "content_block_stop", index |-> index]
ContentBlockStartTool(index, id, name) ==
    [type |-> "content_block_start", index |-> index,
     content_block |-> [type |-> "tool_use", id |-> id, name |-> name]]
ContentBlockStartText(index) ==
    [type |-> "content_block_start", index |-> index,
     content_block |-> [type |-> "text", text |-> <<>>]]
ContentBlockDelta(index, delta_type, fragment) ==
    [type |-> "content_block_delta", index |-> index,
     delta |-> [type |-> delta_type, fragment |-> fragment]]
MessageDelta(stop_reason) ==
    [type |-> "message_delta", stop_reason |-> stop_reason,
     input_tokens |-> 100, output_tokens |-> 150]
MessageStop == [type |-> "message_stop"]

\* ------------------------------------------------------- StreamingState
StreamingState_new ==
    [content_block_index |-> 0,
     has_started_text_block |-> FALSE,
     is_tool_use |-> FALSE,
     current_tool_call_id |-> NoneV,
     tool_call_json_map |-> <<>>]

\* HashMap::insert
insert(m, k, v) == [x \in (DOMAIN m) \cup {k} |-> IF x = k THEN v ELSE m[x]]
\* HashMap::get(..).cloned().unwrap_or_default()
get_or_default(m, k) == IF k \in DOMAIN m THEN m[k] ELSE <<>>

\* as_str().unwrap_or("")
unwrap_or_empty(o) == IF IsSome(o) THEN o[1] ELSE ""

\* OpenToolBlock that does not close the open block
OpenToolBlock_NoStop(tool_call, r) ==
    LET st == r.state IN
    IF IsSome(tool_call.id) /\ tool_call.id # st.current_tool_call_id
    THEN [state |-> [st EXCEPT
                        !.is_tool_use = TRUE,
                        !.has_started_text_block = FALSE,
                        !.current_tool_call_id = tool_call.id,
                        !.content_block_index = st.content_block_index + 1,
                        !.tool_call_json_map =
                            insert(st.tool_call_json_map, tool_call.id[1], <<>>)],
          events |-> r.events \o
              format_sse_event("content_block_start",
                  ContentBlockStartTool(st.content_block_index + 1,
                      tool_call.id[1], unwrap_or_empty(tool_call.name)))]
    ELSE r

\* OpenToolBlock that keeps the arguments an id has accumulated before
OpenToolBlock_KeepBuffer(tool_call, r) ==
    LET st == r.state IN
    IF IsSome(tool_call.id) /\ tool_call.id # st.current_tool_call_id
    THEN LET stop == IF st.is_tool_use \/ st.has_started_text_block
                     THEN format_sse_event("content_block_stop",
                              ContentBlockStop(st.content_block_index))
                     ELSE <<>>
         IN [state |-> [st EXCEPT
                          !.is_tool_use = TRUE,
                          !.has_started_text_block = FALSE,
                          !.current_tool_call_id = tool_call.id,
                          !.content_block_index = st.content_block_index + 1,
                          !.tool_call_json_map =
                              insert(st.tool_call_json_map, tool_call.id[1],
                                     get_or_default(st.tool_call_json_map,
                                                    tool_call.id[1]))],
             events |-> r.events \o stop \o
                 format_sse_event("content_block_start",
                     ContentBlockStartTool(st.content_block_index + 1,
                         tool_call.id[1], unwrap_or_empty(tool_call.name)))]
    ELSE r

\* OpenToolBlock that opens a block for every fragment that has an id
OpenToolBlock_Reopen(tool_call, r) ==
    LET st == r.state IN
    IF IsSome(tool_call.id)
    THEN LET stop == IF st.is_tool_use \/ st.has_started_text_block
                     THEN format_sse_event("content_block_stop",
                              ContentBlockStop(st.content_block_index))
                     ELSE <<>>
         IN [state |-> [st EXCEPT
                          !.is_tool_use = TRUE,
                          !.has_started_text_block = FALSE,
                          !.current_tool_call_id = tool_call.id,
                          !.content_block_index = st.content_block_index + 1,
                          !.tool_call_json_map =
                              insert(st.tool_call_json_map, tool_call.id[1], <<>>)],
             events |-> r.events \o stop \o
                 format_sse_event("content_block_start",
                     ContentBlockStartTool(st.content_block_index + 1,
                         tool_call.id[1], unwrap_or_empty(tool_call.name)))]
    ELSE r

\* process_stream_delta, tool-call branch, `if let Some(tool_call_id)`:
\* a fragment whose id differs from the open one closes the open block and
\* opens a tool_use block.  r is [state, events].
OpenToolBlock(tool_call, r) ==
    LET st == r.state IN
    IF IsSome(tool_call.id) /\ tool_call.id # st.current_tool_call_id
    THEN LET stop == IF st.is_tool_use \/ st.has_started_text_block
                     THEN format_sse_event("content_block_stop",
                              ContentBlockStop(st.content_block_index))
                     ELSE <<>>
             st2 == [st EXCEPT
                        !.is_tool_use = TRUE,
                        !.has_started_text_block = FALSE,
                        !.current_tool_call_id = tool_call.id,
                        !.content_block_index = st.content_block_index + 1,
                        !.tool_call_json_map =
                            insert(st.tool_call_json_map, tool_call.id[1], <<>>)]
         IN [state |-> st2,
             events |-> r.events \o stop \o
                 format_sse_event("content_block_start",
                     ContentBlockStartTool(st2.content_block_index,
                         tool_call.id[1], unwrap_or_empty(tool_call.name)))]
    ELSE r

\* AppendArguments that emits the arguments also when no tool call is open
AppendArguments_Unguarded(tool_call, r) ==
    LET st == r.state IN
    IF IsSome(tool_call.arguments)
    THEN [state |->
              IF IsSome(st.current_tool_call_id)
              THEN [st EXCEPT !.tool_call_json_map =
                       insert(st.tool_call_json_map, st.current_tool_call_id[1],
                              get_or_default(st.tool_call_json_map,
                                             st.current_tool_call_id[1])
                              \o tool_call.arguments[1])]
              ELSE st,
          events |-> r.events \o
              format_sse_event("content_block_delta",
                  ContentBlockDelta(st.content_block_index,
                      "input_json_delta", tool_call.arguments[1]))]
    ELSE r

\* AppendArguments whose partial_json is the accumulated total
AppendArguments_Accumulated(tool_call, r) ==
    LET st == r.state IN
    IF IsSome(tool_call.arguments) /\ IsSome(st.current_tool_call_id)
    THEN LET current_id == st.current_tool_call_id[1]
             total == get_or_default(st.tool_call_json_map, current_id)
                      \o tool_call.arguments[1]
         IN [state |-> [st EXCEPT !.tool_call_json_map =
                           insert(st.tool_call_json_map, current_id, total)],
             events |-> r.events \o
                 format_sse_event("content_block_delta",
                     ContentBlockDelta(st.content_block_index,
                         "input_json_delta", total))]
    ELSE r

\* process_stream_delta, tool-call branch, `if let Some(arguments)`.
AppendArguments(tool_call, r) ==
    LET st == r.state IN
    IF IsSome(tool_call.arguments) /\ IsSome(st.current_tool_call_id)
    THEN LET current_id == st.current_tool_call_id[1]
             current_json == get_or_default(st.tool_call_json_map, current_id)
         IN [state |-> [st EXCEPT !.tool_call_json_map =
                           insert(st.tool_call_json_map, current_id,
                                  current_json \o tool_call.arguments[1])],
             events |-> r.events \o
                 format_sse_event("content_block_delta",
                     ContentBlockDelta(st.content_block_index,
                         "input_json_delta", tool_call.arguments[1]))]
    ELSE r

\* process_stream_delta: `for tool_call in tool_calls`.
RECURSIVE ToolCallsLoop(_, _)
ToolCallsLoop(tool_calls, r) ==
    IF tool_calls = <<>> THEN r
    ELSE ToolCallsLoop(Tail(tool_calls),
             AppendArguments(tool_calls[1], OpenToolBlock(tool_calls[1], r)))

\* TextDelta that leaves the tool-call id recorded
TextDelta_KeepId(content, st) ==
    LET stop == IF st.is_tool_use
                THEN format_sse_event("content_block_stop",
                         ContentBlockStop(st.content_block_index))
                ELSE <<>>
        st1 == IF st.is_tool_use
               THEN [st EXCEPT !.is_tool_use = FALSE,
                               !.content_block_index = st.content_block_index + 1]
               ELSE st
        start == IF ~st1.has_started_text_block
                 THEN format_sse_event("content_block_start",
                          ContentBlockStartText(st1.content_block_index))
                 ELSE <<>>
    IN [state |-> [st1 EXCEPT !.has_started_text_block = TRUE],
        events |-> stop \o start \o
            format_sse_event("content_block_delta",
                ContentBlockDelta(st1.content_block_index, "text_delta", content))]

\* TextDelta that opens a text block for every fragment
TextDelta_AlwaysStart(content, st) ==
    [state |-> [st EXCEPT !.has_started_text_block = TRUE],
     events |->
        format_sse_event("content_block_start",
            ContentBlockStartText(st.content_block_index))
        \o format_sse_event("content_block_delta",
            ContentBlockDelta(st.content_block_index, "text_delta", content))]

\* process_stream_delta, `else if let Some(content)`.
TextDelta(content, st) ==
    LET stop == IF st.is_tool_use
                THEN format_sse_event("content_block_stop",
                         ContentBlockStop(st.content_block_index))
                ELSE <<>>
        st1 == IF st.is_tool_use
               THEN [st EXCEPT !.is_tool_use = FALSE,
                               !.current_tool_call_id = NoneV,
                               !.content_block_index = st.content_block_index + 1]
               ELSE st
        start == IF ~st1.has_started_text_block
                 THEN format_sse_event("content_block_start",
                          ContentBlockStartText(st1.content_block_index))
                 ELSE <<>>
        st2 == [st1 EXCEPT !.has_started_text_block = TRUE]
    IN [state |-> st2,
        events |-> stop \o start \o
            format_sse_event("content_block_delta",
                ContentBlockDelta(st2.content_block_index, "text_delta", content))]

\* process_stream_delta(delta, &mut state) -> events
process_stream_delta(delta, st) ==
    IF IsSome(delta.tool_calls)
    THEN ToolCallsLoop(delta.tool_calls[1], [state |-> st, events |-> <<>>])
    ELSE IF IsSome(delta.content)
    THEN TextDelta(delta.content[1], st)
    ELSE [state |-> st, events |-> <<>>]

\* ProcessDataLine that takes a choice without delta for an empty text delta
ProcessDataLine_NoDeltaAsText(line, r) ==
    IF line.kind = "json" /\ IsSome(line.choices) /\ line.choices[1] # <<>>
    THEN LET d == line.choices[1][1].delta
             p == process_stream_delta(
                      IF IsSome(d) THEN d[1] ELSE Delta(NoneV, Some(<<>>)),
                      r.state)
         IN [state |-> p.state, events |-> r.events \o p.events]
    ELSE r

\* The body of the `for line in &lines[..]` loop for a line that is not
\* [DONE]: r is [state, events].
ProcessDataLine(line, r) ==
    IF line.kind = "json" /\ IsSome(line.choices) /\ line.choices[1] # <<>>
       /\ IsSome(line.choices[1][1].delta)
    THEN LET p == process_stream_delta(line.choices[1][1].delta[1], r.state)
         IN [state |-> p.state, events |-> r.events \o p.events]
    ELSE r

\* What `break` on [DONE] leaves of the lines of the chunk: nothing.
AfterDone(rest) == <<>>

\* `for line in &lines[..lines.len() - 1]` with its `break` on [DONE].
RECURSIVE ProcessLines(_, _)
ProcessLines(lines, r) ==
    IF lines = <<>> THEN r
    ELSE IF lines[1].kind = "done" THEN ProcessLines(AfterDone(Tail(lines)), r)
    ELSE ProcessLines(Tail(lines), ProcessDataLine(lines[1], r))

\* The lines the chunk completes, as the loop reads them.
RECURSIVE ParseAll(_)
ParseAll(segs) ==
    IF segs = <<>> THEN <<>> ELSE <<ParseLine(segs[1])>> \o ParseAll(Tail(segs))

CompleteLines(text) == ParseAll(SubSeq(split(text), 1, Len(split(text)) - 1))
new_buffer(text) == split(text)[Len(split(text))]

\* "Close last content block"
CloseLastBlock(st) ==
    IF st.is_tool_use \/ st.has_started_text_block
    THEN format_sse_event("content_block_stop",
             ContentBlockStop(st.content_block_index))
    ELSE <<>>

\* StopReason that reports tool_use whenever no text block is open
StopReason_NoText(st) ==
    IF ~st.has_started_text_block THEN "tool_use" ELSE "end_turn"

\* stop_reason of the message_delta event
StopReason(st) == IF st.is_tool_use THEN "tool_use" ELSE "end_turn"

\* Closing without message_stop
Closing_NoStop(st) ==
    CloseLastBlock(st)
    \o format_sse_event("message_delta", MessageDelta(StopReason(st)))

\* The events pushed after the read loop.
Closing(st) ==
    CloseLastBlock(st)
    \o format_sse_event("message_delta", MessageDelta(StopReason(st)))
    \o format_sse_event("message_stop", MessageStop)

\* ------------------------------------------------------------- the state
VARIABLES
    pc,            \* "reading": in the while loop; "done": function returned
    buffer,        \* the incomplete line carried to the next chunk
    state,         \* StreamingState
    output_lines,  \* the events pushed so far
    response,      \* Option: the Result the caller gets
    socket,        \* upstream: the bytes written and not yet read
    inflight,      \* upstream: Option of the atom written without its newline
    chunks_in,     \* history: the complete lines of each chunk received
    ended_by,      \* history: "open", "eof" or "error"
    nwrites,       \* upstream: writes made so far
    call,          \* Option: the function called and its arguments
    ret,           \* Option: what the call returned
    peer           \* Option: a second streaming response in progress

vars == <<pc, buffer, state, output_lines, response, socket, inflight,
          chunks_in, ended_by, nwrites, call, ret, peer>>

RECURSIVE Flatten(_)
Flatten(ss) == IF ss = <<>> THEN <<>> ELSE ss[1] \o Flatten(Tail(ss))

lines_in == Flatten(chunks_in)

Init ==
    /\ pc = "reading"
    /\ buffer = <<>>
    /\ state = StreamingState_new
    /\ output_lines = format_sse_event("message_start", MessageStart)
    /\ response = NoneV
    /\ socket = <<>>
    /\ inflight = NoneV
    /\ chunks_in = <<>>
    /\ ended_by = "open"
    /\ nwrites = 0
    /\ call = NoneV
    /\ ret = NoneV
    /\ peer = NoneV

program_vars == <<pc, buffer, state, output_lines, response, chunks_in, ended_by>>

\* the variables of the calls of the other transcoders and of the other
\* streaming response
call_vars == <<call, ret, peer>>

\* The upstream writes one line with its newline.
SendLine(l) ==
    /\ pc = "reading" /\ ~IsSome(inflight)
    /\ nwrites < MaxWrites
    /\ socket' = socket \o <<Whole(l), NL>>
    /\ nwrites' = nwrites + 1
    /\ UNCHANGED inflight
    /\ UNCHANGED program_vars
    /\ UNCHANGED call_vars

\* The upstream writes a line, or the head of a line, and the chunk ends
\* before the rest of it.
SendOpen(atom) ==
    /\ pc = "reading" /\ ~IsSome(inflight)
    /\ nwrites < MaxWrites
    /\ socket' = socket \o <<atom>>
    /\ inflight' = Some(atom)
    /\ nwrites' = nwrites + 1
    /\ UNCHANGED program_vars
    /\ UNCHANGED call_vars

\* The upstream writes the rest of the line it left open, in a later chunk.
SendRest ==
    /\ pc = "reading" /\ IsSome(inflight) /\ socket = <<>>
    /\ nwrites < MaxWrites
    /\ socket' = IF inflight[1].part = "head"
                 THEN <<LineTail(inflight[1].line), NL>>
                 ELSE <<NL>>
    /\ inflight' = NoneV
    /\ nwrites' = nwrites + 1
    /\ UNCHANGED program_vars
    /\ UNCHANGED call_vars

\* One iteration of `while let Some(chunk_result) = stream.next().await`
\* with chunk_result = Ok(chunk): the chunk is what the socket holds.
RecvChunk ==
    /\ pc = "reading" /\ socket # <<>>
    /\ LET text == buffer \o from_utf8_lossy(socket)
           lines == CompleteLines(text)
           r == ProcessLines(lines, [state |-> state, events |-> <<>>])
       IN /\ state' = r.state
          /\ output_lines' = output_lines \o r.events
          /\ buffer' = new_buffer(text)
          /\ chunks_in' = Append(chunks_in, lines)
    /\ socket' = <<>>
    /\ UNCHANGED <<pc, response, inflight, ended_by, nwrites>>
    /\ UNCHANGED call_vars

\* ResultOnErr that propagates the read error with `?`
ResultOnErr_Fail(body) == [ok |-> FALSE, body |-> <<>>]

\* What the function returns when the read fails.
ResultOnErr(body) == [ok |-> TRUE, body |-> body]

\* The loop ends (`None`, or `Err(_) => break`) and the function returns
\* Ok(output_lines.join("")), which stream_openai_to_anthropic wraps in the
\* response.
Finish(how) ==
    /\ pc = "reading" /\ socket = <<>>
    /\ pc' = "done"
    /\ output_lines' = output_lines \o Closing(state)
    /\ response' = Some(IF how = "error" THEN ResultOnErr(output_lines')
                        ELSE [ok |-> TRUE, body |-> output_lines'])
    /\ ended_by' = how
    /\ UNCHANGED <<buffer, state, socket, inflight, chunks_in, nwrites>>
    /\ UNCHANGED call_vars

RecvEnd == Finish("eof")
RecvErr == Finish("error")

Send ==
    \/ \E l \in LineSet : SendLine(l)
    \/ \E l \in CutLines : SendOpen(LineHead(l))
    \/ \E l \in CutLines : SendOpen(Whole(l))
    \/ SendRest

Next == Send \/ RecvChunk \/ RecvEnd \/ RecvErr

Spec == Init /\ [][Next]_vars

\* ============================================================== properties
\* The events the caller gets once the function has returned.
Body == response[1].body

\* The data of the events of one type in a sequence of events.
OfType(evs, t) == SelectSeq(evs, LAMBDA e : e.event = t)

IsTextLine(l) == l \in TextLines

\* The events between message_start and the closing events for a stream of
\* text fragments: one open, one delta per fragment.
RECURSIVE TextDeltas(_)
TextDeltas(ls) ==
    IF ls = <<>> THEN <<>>
    ELSE <<[event |-> "content_block_delta",
            data |-> ContentBlockDelta(0, "text_delta",
                         ls[1].choices[1][1].delta[1].content[1])]>>
         \o TextDeltas(Tail(ls))

TextOnlyOutput(ls) ==
    <<[event |-> "message_start", data |-> MessageStart],
      [event |-> "content_block_start", data |-> ContentBlockStartText(0)]>>
    \o TextDeltas(ls)
    \o <<[event |-> "content_block_stop", data |-> ContentBlockStop(0)],
         [event |-> "message_delta", data |-> MessageDelta("end_turn")],
         [event |-> "message_stop", data |-> MessageStop]>>

\* The stream was n >= 1 text lines and then [DONE], and nothing else.
TextOnlyStream ==
    /\ pc = "done" /\ buffer = <<>>
    /\ Len(lines_in) >= 2
    /\ lines_in[Len(lines_in)] = DoneLine
    /\ \A i \in 1..(Len(lines_in) - 1) : IsTextLine(lines_in[i])

\* C1: a stream of n >= 1 text deltas ended by [DONE] yields exactly
\* message_start, content_block_start(text, 0), one text_delta per line in
\* arrival order, content_block_stop(0), message_delta(end_turn),
\* message_stop.
C1_TextOnlySequence ==
    TextOnlyStream =>
        Body = TextOnlyOutput(SubSeq(lines_in, 1, Len(lines_in) - 1))

C1_Witness ==
    /\ TextOnlyStream
    /\ lines_in = <<TextLine(<<"a">>), TextLine(<<"b">>), DoneLine>>
    /\ Len(chunks_in) = 2

\* The stream was one tool-call delta with an id and then one text delta.
ToolThenTextStream ==
    /\ pc = "done" /\ buffer = <<>>
    /\ lines_in = <<ToolLine(<<TcOpen1Args>>), TextLine(<<"a">>)>>

\* C2: a tool-call delta followed by a text delta gives two content blocks,
\* tool_use at index 0 and text at index 1, and content_block_stop(0) is
\* emitted between the two content_block_start events.
C2_ToolThenTextIndices ==
    ToolThenTextStream =>
        \E i, j, k \in 1..Len(Body) :
            /\ i < j /\ j < k
            /\ Len(OfType(Body, "content_block_start")) = 2
            /\ Body[i].event = "content_block_start"
            /\ Body[i].data.index = 0
            /\ Body[i].data.content_block.type = "tool_use"
            /\ Body[j].event = "content_block_stop"
            /\ Body[j].data.index = 0
            /\ Body[k].event = "content_block_start"
            /\ Body[k].data.index = 1
            /\ Body[k].data.content_block.type = "text"

\* Reading the events in order with `open`, the Option of the index of the
\* block that is open: a start needs no open block, a stop needs the open
\* block of its index, a delta changes nothing, message_delta needs no open
\* block.
RECURSIVE Bracketed(_, _)
Bracketed(evs, open) ==
    IF evs = <<>> THEN TRUE
    ELSE LET e == evs[1] IN
         IF e.event = "content_block_start"
         THEN open = NoneV /\ Bracketed(Tail(evs), Some(e.data.index))
         ELSE IF e.event = "content_block_stop"
         THEN open = Some(e.data.index) /\ Bracketed(Tail(evs), NoneV)
         ELSE IF e.event = "message_delta"
         THEN open = NoneV /\ Bracketed(Tail(evs), open)
         ELSE Bracketed(Tail(evs), open)

\* C3: content blocks are properly bracketed in the emitted events: at most
\* one block is open, every start is closed by one stop of its index before
\* the next start and before message_delta, and no stop closes a block that
\* is not open.
C3_BlocksBracketed == Bracketed(output_lines, NoneV)

C3_Witness ==
    /\ pc = "done"
    /\ Len(OfType(Body, "content_block_start")) = 3
    /\ Len(OfType(Body, "content_block_stop")) = 3

\* C4: whatever the stream, the output starts with the one message_start
\* and ends with the one message_delta followed by the one message_stop.
C4_Envelope ==
    /\ output_lines[1].event = "message_start"
    /\ Len(OfType(output_lines, "message_start")) = 1
    /\ pc = "reading" =>
           /\ OfType(output_lines, "message_delta") = <<>>
           /\ OfType(output_lines, "message_stop") = <<>>
    /\ pc = "done" =>
           /\ Len(Body) >= 3
           /\ Body[1].event = "message_start"
           /\ Body[Len(Body) - 1].event = "message_delta"
           /\ Body[Len(Body)].event = "message_stop"
           /\ Len(OfType(Body, "message_start")) = 1
           /\ Len(OfType(Body, "message_delta")) = 1
           /\ Len(OfType(Body, "message_stop")) = 1

C4_Witness ==
    /\ pc = "done" /\ ended_by = "error"
    /\ BadJsonLine \in {lines_in[i] : i \in 1..Len(lines_in)}
    /\ buffer # <<>>

\* The result of the loop over the chunks received: [state, events].
RECURSIVE Replay(_, _)
Replay(chunks, r) ==
    IF chunks = <<>> THEN r
    ELSE Replay(Tail(chunks), ProcessLines(chunks[1], r))

Fresh == [state |-> StreamingState_new, events |-> <<>>]

\* The lines before the first [DONE].
RECURSIVE BeforeDone(_)
BeforeDone(ls) ==
    IF ls = <<>> \/ ls[1] = DoneLine THEN <<>>
    ELSE <<ls[1]>> \o BeforeDone(Tail(ls))

\* The output and the state are those of the run over `r`.
OutputIs(r) ==
    /\ state = r.state
    /\ output_lines = format_sse_event("message_start", MessageStart)
                      \o r.events
                      \o (IF pc = "done" THEN Closing(r.state) ELSE <<>>)

\* C5: once [DONE] has been read no later data line, of the same chunk or of
\* a later one, produces an event or changes the StreamingState: the output
\* and the state are those of the lines before the first [DONE].
C5_DoneTerminates == OutputIs(ProcessLines(BeforeDone(lines_in), Fresh))

\* C6: the message_delta carries stop_reason "tool_use" exactly when the
\* block open at stream end (the last block started, closed by the stop
\* that precedes message_delta) is a tool_use block, "end_turn" otherwise.
C6_StopReason ==
    pc = "done" =>
        LET n == Len(Body)
            starts == OfType(Body, "content_block_start")
            toolOpen ==
                /\ Body[n - 2].event = "content_block_stop"
                /\ starts # <<>>
                /\ starts[Len(starts)].data.content_block.type = "tool_use"
        IN /\ Body[n - 1].event = "message_delta"
           /\ Body[n - 1].data.stop_reason =
                  IF toolOpen THEN "tool_use" ELSE "end_turn"

C6_Witness ==
    /\ pc = "done"
    /\ Body[Len(Body) - 1].data.stop_reason = "tool_use"
    /\ \E i \in 1..Len(Body) :
           /\ Body[i].event = "content_block_start"
           /\ Body[i].data.content_block.type = "text"

\* The block the events leave open: Option of its content_block_start.
RECURSIVE OpenBlock(_, _)
OpenBlock(evs, open) ==
    IF evs = <<>> THEN open
    ELSE IF evs[1].event = "content_block_start"
         THEN OpenBlock(Tail(evs), Some(evs[1].data))
    ELSE IF evs[1].event = "content_block_stop"
         THEN OpenBlock(Tail(evs), NoneV)
    ELSE OpenBlock(Tail(evs), open)

\* The closing events of a stream that has emitted evs.
ClosingAfter(evs) ==
    LET open == OpenBlock(evs, NoneV) IN
    (IF IsSome(open)
     THEN <<[event |-> "content_block_stop",
             data |-> ContentBlockStop(open[1].index)]>>
     ELSE <<>>)
    \o <<[event |-> "message_delta",
          data |-> MessageDelta(
              IF IsSome(open) /\ open[1].content_block.type = "tool_use"
              THEN "tool_use" ELSE "end_turn")],
         [event |-> "message_stop", data |-> MessageStop]>>

\* C7: when the read fails after k chunks the function still returns Ok:
\* the events of those k chunks followed by the closing events of a stream
\* that ends there (the stop of the open block, message_delta,
\* message_stop), as when the stream ends normally after chunk k.
C7_ReadErrorTruncates ==
    pc = "done" =>
        LET pre == format_sse_event("message_start", MessageStart)
                   \o Replay(chunks_in, Fresh).events
        IN response = Some([ok |-> TRUE, body |-> pre \o ClosingAfter(pre)])

C7_Witness ==
    /\ pc = "done" /\ ended_by = "error"
    /\ Len(chunks_in) = 2
    /\ state.is_tool_use
    /\ IsSome(inflight)

\* A data line the loop skips: not a data line, not JSON, no choices array,
\* no first choice, or no delta in the first choice.
IsSkipped(l) ==
    \/ l.kind \in {"other", "badjson"}
    \/ /\ l.kind = "json"
       /\ \/ l.choices = NoneV
          \/ l.choices[1] = <<>>
          \/ l.choices[1][1].delta = NoneV

RECURSIVE WithoutSkipped(_)
WithoutSkipped(chunks) ==
    IF chunks = <<>> THEN <<>>
    ELSE <<SelectSeq(chunks[1], LAMBDA l : ~IsSkipped(l))>>
         \o WithoutSkipped(Tail(chunks))

\* C8: a skipped data line emits nothing and leaves the state alone, and
\* the later lines are processed as if it had not been there: the output
\* and the state are those of the stream without its skipped lines.
C8_MalformedSkipped == OutputIs(Replay(WithoutSkipped(chunks_in), Fresh))

C8_Witness ==
    /\ pc = "done"
    /\ lines_in = <<ToolLine(<<TcOpen1Args>>), BadJsonLine, TextLine(<<"b">>)>>
    /\ Len(chunks_in) = 2

\* The fragments of the content_block_delta events, in order.
RECURSIVE EmittedFragments(_)
EmittedFragments(evs) ==
    IF evs = <<>> THEN <<>>
    ELSE (IF evs[1].event = "content_block_delta"
          THEN <<evs[1].data.delta.fragment>> ELSE <<>>)
         \o EmittedFragments(Tail(evs))

RECURSIVE ArgumentsOf(_)
ArgumentsOf(tcs) ==
    IF tcs = <<>> THEN <<>> ELSE tcs[1].arguments \o ArgumentsOf(Tail(tcs))

\* The argument and text fragments the upstream lines carry, in order.
RECURSIVE UpstreamFragments(_)
UpstreamFragments(ls) ==
    IF ls = <<>> THEN <<>>
    ELSE (IF IsSkipped(ls[1]) \/ ls[1].kind = "done" THEN <<>>
          ELSE LET d == ls[1].choices[1][1].delta[1]
               IN (IF IsSome(d.tool_calls) THEN ArgumentsOf(d.tool_calls[1])
                   ELSE <<>>) \o d.content)
         \o UpstreamFragments(Tail(ls))

\* a is b with some of its elements left out
RECURSIVE IsSubsequence(_, _)
IsSubsequence(a, b) ==
    IF a = <<>> THEN TRUE
    ELSE IF b = <<>> THEN FALSE
    ELSE IF a[1] = b[1] THEN IsSubsequence(Tail(a), Tail(b))
    ELSE IsSubsequence(a, Tail(b))

\* The stream has no [DONE] and no delta with an empty tool_calls list.
PlainStream ==
    \A i \in 1..Len(lines_in) :
        /\ lines_in[i] # DoneLine
        /\ ~IsSkipped(lines_in[i]) =>
               lines_in[i].choices[1][1].delta[1].tool_calls # Some(<<>>)

\* C9 as stated: the concatenation of the emitted text and partial_json
\* fragments equals the concatenation of the upstream fragments in arrival
\* order (here for the streams that [DONE] does not cut short).
C9_FragmentsEqual ==
    PlainStream =>
        Flatten(EmittedFragments(output_lines))
            = Flatten(UpstreamFragments(lines_in))

\* C9 as amended: events are emitted in the order of the lines they derive
\* from; the emitted fragments are, in order, upstream fragments, none
\* twice: some upstream fragments are left out, none is moved.
C9_FragmentsInOrder ==
    IsSubsequence(EmittedFragments(output_lines), UpstreamFragments(lines_in))

C9_Witness ==
    /\ pc = "done"
    /\ Len(EmittedFragments(output_lines)) = 2
    /\ Len(UpstreamFragments(lines_in)) = 3
    /\ Len(chunks_in) = 3

\* C10: the events derived from an upstream chunk, message_start first, are
\* with the caller before the upstream stream has ended.
C10_ForwardedWhileReading ==
    (pc = "reading" /\ chunks_in # <<>>) =>
        /\ IsSome(response)
        /\ Len(Body) >= 1
        /\ Body[1].event = "message_start"

\* ====================================================== Model Identifier Mapper
\* number of parts a model name is made of
MaxParts == 3

\* str::contains
contains(s, sub) ==
    \E i \in 0..(Len(s) - Len(sub)) : SubSeq(s, i + 1, i + Len(sub)) = sub

\* str::starts_with
starts_with(s, prefix) ==
    Len(s) >= Len(prefix) /\ SubSeq(s, 1, Len(prefix)) = prefix

\* char::to_lowercase
lower_char(c) ==
    LET UpperCase == <<"A", "B", "C", "D", "E", "F", "G", "H", "I", "J", "K", "L", "M",
                     "N", "O", "P", "Q", "R", "S", "T", "U", "V", "W", "X", "Y", "Z">>
        LowerCase == <<"a", "b", "c", "d", "e", "f", "g", "h", "i", "j", "k", "l", "m",
                     "n", "o", "p", "q", "r", "s", "t", "u", "v", "w", "x", "y", "z">>
    IN IF \E i \in 1..Len(UpperCase) : UpperCase[i] = c
       THEN LowerCase[CHOOSE i \in 1..Len(UpperCase) : UpperCase[i] = c]
       ELSE c

\* str::to_lowercase
to_lowercase(s) == [i \in 1..Len(s) |-> lower_char(s[i])]

S_slash == <<"/">>
S_haiku == <<"h", "a", "i", "k", "u">>
S_sonnet == <<"s", "o", "n", "n", "e", "t">>
S_opus == <<"o", "p", "u", "s">>
S_claude3 == <<"c", "l", "a", "u", "d", "e", "-", "3">>
HaikuId == <<"a", "n", "t", "h", "r", "o", "p", "i", "c", "/", "c", "l", "a", "u", "d", "e", "-", "3", ".", "5", "-", "h", "a", "i", "k", "u">>
SonnetId == <<"a", "n", "t", "h", "r", "o", "p", "i", "c", "/", "c", "l", "a", "u", "d", "e", "-", "s", "o", "n", "n", "e", "t", "-", "4">>
OpusId == <<"a", "n", "t", "h", "r", "o", "p", "i", "c", "/", "c", "l", "a", "u", "d", "e", "-", "o", "p", "u", "s", "-", "4">>

\* map_model without the passthrough of names that contain '/'
map_model_NoPassthrough(anthropic_model) ==
    LET model_lower == to_lowercase(anthropic_model) IN
    IF model_lower = S_haiku
       \/ (starts_with(model_lower, S_claude3) /\ contains(model_lower, S_haiku))
    THEN HaikuId
    ELSE IF model_lower = S_sonnet
       \/ (starts_with(model_lower, S_claude3) /\ contains(model_lower, S_sonnet))
    THEN SonnetId
    ELSE IF model_lower = S_opus
       \/ (starts_with(model_lower, S_claude3) /\ contains(model_lower, S_opus))
    THEN OpusId
    ELSE anthropic_model

\* map_model that matches the keyword anywhere in the name
map_model_Substring(anthropic_model) ==
    LET model_lower == to_lowercase(anthropic_model) IN
    IF contains(anthropic_model, S_slash) THEN anthropic_model
    ELSE IF contains(model_lower, S_haiku) THEN HaikuId
    ELSE IF contains(model_lower, S_sonnet) THEN SonnetId
    ELSE IF contains(model_lower, S_opus) THEN OpusId
    ELSE anthropic_model

\* map_model that compares the name as it is written
map_model_CaseSensitive(anthropic_model) ==
    IF contains(anthropic_model, S_slash) THEN anthropic_model
    ELSE IF anthropic_model = S_haiku
       \/ (starts_with(anthropic_model, S_claude3)
           /\ contains(anthropic_model, S_haiku))
    THEN HaikuId
    ELSE IF anthropic_model = S_sonnet
       \/ (starts_with(anthropic_model, S_claude3)
           /\ contains(anthropic_model, S_sonnet))
    THEN SonnetId
    ELSE IF anthropic_model = S_opus
       \/ (starts_with(anthropic_model, S_claude3)
           /\ contains(anthropic_model, S_opus))
    THEN OpusId
    ELSE anthropic_model

\* map_model(anthropic_model, _config)
map_model(anthropic_model) ==
    LET model_lower == to_lowercase(anthropic_model) IN
    IF contains(anthropic_model, S_slash) THEN anthropic_model
    ELSE IF model_lower = S_haiku
       \/ (starts_with(model_lower, S_claude3) /\ contains(model_lower, S_haiku))
    THEN HaikuId
    ELSE IF model_lower = S_sonnet
       \/ (starts_with(model_lower, S_claude3) /\ contains(model_lower, S_sonnet))
    THEN SonnetId
    ELSE IF model_lower = S_opus
       \/ (starts_with(model_lower, S_claude3) /\ contains(model_lower, S_opus))
    THEN OpusId
    ELSE anthropic_model

\* The parts the model names of the calls are made of.
NameParts ==
    { S_claude3, <<"C", "l", "a", "u", "d", "e", "-", "3">>, S_haiku, <<"H", "a", "i", "k", "u">>, S_sonnet,
      <<"S", "O", "N", "N", "E", "T">>, S_opus, <<"O", "p", "u", "s">>, <<"-">>, S_slash,
      <<"m", "y", "-">> }

ModelNames ==
    {Flatten(ps) : ps \in UNION {[1..k -> NameParts] : k \in 0..MaxParts}}

streaming_vars == <<pc, buffer, state, output_lines, response, socket,
                    inflight, chunks_in, ended_by, nwrites, peer>>

\* A call of map_model.
MapModelCall(name) ==
    /\ call = NoneV
    /\ call' = Some([fn |-> "map_model", arg |-> name])
    /\ ret' = Some(map_model(name))
    /\ UNCHANGED streaming_vars

NextMap == \E name \in ModelNames : MapModelCall(name)

SpecMap == Init /\ [][NextMap]_vars

IsCall(fn) == IsSome(call) /\ call[1].fn = fn

\* C14: map_model returns a name that contains '/' unchanged; every name it
\* changes becomes one that contains '/', and mapping the result again
\* changes nothing.
C14_PassthroughIdempotent ==
    IsCall("map_model") =>
        /\ contains(call[1].arg, S_slash) => ret[1] = call[1].arg
        /\ ret[1] # call[1].arg => contains(ret[1], S_slash)
        /\ map_model(ret[1]) = ret[1]

C14_Witness ==
    /\ IsCall("map_model")
    /\ call[1].arg = S_claude3 \o S_slash \o S_haiku
    /\ ret[1] = call[1].arg

\* The first of haiku, sonnet, opus the lower-cased name contains.
HasKeyword(name) ==
    \E k \in {S_haiku, S_sonnet, S_opus} : contains(to_lowercase(name), k)

KeywordId(name) ==
    IF contains(to_lowercase(name), S_haiku) THEN HaikuId
    ELSE IF contains(to_lowercase(name), S_sonnet) THEN SonnetId
    ELSE OpusId

\* C15 as stated: a slash-free name that contains haiku, sonnet or opus
\* anywhere, in any case, maps to the identifier of that keyword.
C15_SubstringMatch ==
    (IsCall("map_model") /\ ~contains(call[1].arg, S_slash)
     /\ HasKeyword(call[1].arg)) =>
        ret[1] = KeywordId(call[1].arg)

\* C15 as amended: a slash-free name that contains a keyword maps to the
\* identifier of that keyword only if, lower-cased, it is the keyword or
\* starts with "claude-3"; otherwise it is returned unchanged.
C15_AnchoredMatch ==
    (IsCall("map_model") /\ ~contains(call[1].arg, S_slash)
     /\ HasKeyword(call[1].arg)) =>
        LET l == to_lowercase(call[1].arg) IN
        ret[1] = IF l \in {S_haiku, S_sonnet, S_opus} \/ starts_with(l, S_claude3)
                 THEN KeywordId(call[1].arg)
                 ELSE call[1].arg

C15_Witness ==
    /\ IsCall("map_model")
    /\ call[1].arg = <<"m", "y", "-">> \o S_haiku
    /\ ret[1] = call[1].arg

\* C16: a slash-free name maps to the haiku, sonnet or opus identifier only
\* when, lower-cased, it equals the keyword or starts with "claude-3" and
\* contains the keyword; every other slash-free name, the empty one too, is
\* returned unchanged.
C16_ExactOrClaude3 ==
    (IsCall("map_model") /\ ~contains(call[1].arg, S_slash)) =>
        LET l == to_lowercase(call[1].arg)
            hit(k) == l = k \/ (starts_with(l, S_claude3) /\ contains(l, k))
        IN /\ hit(S_haiku) => ret[1] = HaikuId
           /\ (~hit(S_haiku) /\ hit(S_sonnet)) => ret[1] = SonnetId
           /\ (~hit(S_haiku) /\ ~hit(S_sonnet) /\ hit(S_opus)) => ret[1] = OpusId
           /\ (~hit(S_haiku) /\ ~hit(S_sonnet) /\ ~hit(S_opus)) =>
                  ret[1] = call[1].arg

C16_Witness ==
    /\ IsCall("map_model")
    /\ call[1].arg = <<"S", "O", "N", "N", "E", "T">>
    /\ ret[1] = SonnetId

\* ========================================================== Request Transcoder
\* number of messages of a request
MaxMessages == 2
\* number of tools of a request
MaxTools == 2

\* serde_json::Value, as far as the transcoder probes it: a string, an array
\* or a value of another kind ("null", "number", "object").
JString(s) == [kind |-> "string", str |-> s, items |-> <<>>]
JArray(items) == [kind |-> "array", str |-> <<>>, items |-> items]
JOther(kind) == [kind |-> kind, str |-> <<>>, items |-> <<>>]

\* Value::as_str, Value::as_array
as_str(v) == IF v.kind = "string" THEN Some(v.str) ELSE NoneV
as_array(v) == IF v.kind = "array" THEN Some(v.items) ELSE NoneV

\* Value::get(key): None on a value that is not an object
get(v, key) == IF v.is_object THEN v[key] ELSE NoneV

\* str::trim().is_empty()
trim_is_empty(s) == \A i \in 1..Len(s) : s[i] \in {" ", "\t", "\n"}

Space == <<" ">>

\* ConcatText that stops at the first part without a string text
RECURSIVE ConcatText_UntilOther(_)
ConcatText_UntilOther(content_array) ==
    IF content_array = <<>> THEN <<>>
    ELSE LET text == content_array[1].text
         IN IF IsSome(text) /\ IsSome(as_str(text[1]))
            THEN as_str(text[1])[1] \o ConcatText_UntilOther(Tail(content_array))
            ELSE <<>>

\* for item in content_array { text_content.push_str(text_str) }
RECURSIVE ConcatText(_)
ConcatText(content_array) ==
    IF content_array = <<>> THEN <<>>
    ELSE LET item == content_array[1]
             text == item.text
         IN (IF IsSome(text) /\ IsSome(as_str(text[1]))
             THEN as_str(text[1])[1] ELSE <<>>)
            \o ConcatText(Tail(content_array))

\* The source message is pushed as it is.
ConvertMessage_PassThrough(message) == message

\* One iteration of `for message in req.messages.iter()`.
ConvertMessage(message) ==
    LET role == get(message, "role")
        content == get(message, "content")
    IN [is_object |-> TRUE,
        role |-> role,
        content |->
          IF IsSome(content)
          THEN IF IsSome(as_array(content[1]))
               THEN LET text_content == ConcatText(as_array(content[1])[1])
                    IN Some(JString(IF text_content = <<>> THEN Space
                                    ELSE text_content))
               ELSE IF IsSome(as_str(content[1]))
               THEN LET content_str == as_str(content[1])[1]
                    IN Some(JString(IF trim_is_empty(content_str) THEN Space
                                    ELSE content_str))
               ELSE NoneV
          ELSE Some(JString(Space))]

\* The request's system value is not forwarded.
SystemMessages_Skipped(system) == <<>>

\* if let Some(system) = &req.system { messages.push(..) }
SystemMessages(system) ==
    IF IsSome(system)
    THEN <<[is_object |-> TRUE, role |-> Some("system"),
            content |-> Some(system[1])]>>
    ELSE <<>>

\* The closure that cleans a tool, without the input_schema part
CleanTool_TopOnly(tool) ==
    IF tool.is_object THEN [tool EXCEPT !.cache_control = NoneV] ELSE tool

\* The closure of cleaned_tools: one tool without its cache_control
CleanTool(tool) ==
    IF tool.is_object
    THEN [tool EXCEPT
            !.cache_control = NoneV,
            !.input_schema =
                IF IsSome(@) /\ @[1].is_object
                THEN Some([@[1] EXCEPT !.cache_control = NoneV])
                ELSE @]
    ELSE tool

S_moonshotai == <<"m", "o", "o", "n", "s", "h", "o", "t", "a", "i", "/">>
S_deepseek_slash == <<"d", "e", "e", "p", "s", "e", "e", "k", "/">>
S_deepseek == <<"d", "e", "e", "p", "s", "e", "e", "k">>

\* (t * 0.6).min(1.0) and (t * 0.8).min(1.0), the f32 temperatures counted
\* in thousandths
scale_min(t, tenths) ==
    IF (t * tenths) \div 10 < 1000 THEN (t * tenths) \div 10 ELSE 1000

\* The moonshotai arm that does not forward the stream flag
MoonshotTransforms_NoStream(temperature, max_tokens, tools, stream) ==
    [temperature |-> IF IsSome(temperature)
                     THEN Some(scale_min(temperature[1], 6)) ELSE NoneV,
     max_tokens |-> IF IsSome(max_tokens) THEN max_tokens ELSE Some(16384),
     tools |-> NoneV,
     stream |-> NoneV]

\* The moonshotai arm that keeps the tools
MoonshotTransforms_KeepTools(temperature, max_tokens, tools, stream) ==
    [temperature |-> IF IsSome(temperature)
                     THEN Some(scale_min(temperature[1], 6)) ELSE NoneV,
     max_tokens |-> IF IsSome(max_tokens) THEN max_tokens ELSE Some(16384),
     tools |-> tools,
     stream |-> stream]

\* apply_model_specific_transforms, the moonshotai arm
MoonshotTransforms(temperature, max_tokens, tools, stream) ==
    [temperature |-> IF IsSome(temperature)
                     THEN Some(scale_min(temperature[1], 6)) ELSE NoneV,
     max_tokens |-> IF IsSome(max_tokens) THEN max_tokens ELSE Some(16384),
     tools |-> NoneV,
     stream |-> stream]

apply_model_specific_transforms(model, temperature, max_tokens, tools, stream) ==
    IF starts_with(model, S_moonshotai)
    THEN MoonshotTransforms(temperature, max_tokens, tools, stream)
    ELSE IF starts_with(model, S_deepseek_slash) \/ contains(model, S_deepseek)
    THEN [temperature |-> IF IsSome(temperature)
                          THEN Some(scale_min(temperature[1], 8))
                          ELSE NoneV,
          max_tokens |-> max_tokens, tools |-> tools, stream |-> stream]
    ELSE [temperature |-> temperature, max_tokens |-> max_tokens,
          tools |-> tools, stream |-> stream]

\* (0.0..=2.0).contains(&temp)
in_range(temp) == 0 <= temp /\ temp <= 2000

\* The message loop of validate_and_clean_request, for one message.
ValidateMessage(message) ==
    IF IsSome(get(message, "content"))
    THEN IF IsSome(as_str(message.content[1]))
            /\ trim_is_empty(as_str(message.content[1])[1])
         THEN [message EXCEPT !.content = Some(JString(Space))]
         ELSE message
    ELSE [message EXCEPT !.content = Some(JString(Space))]

\* message.as_object_mut().unwrap() panics: a message without content that
\* is not an object.
unwrap_panics(request) ==
    \E i \in 1..Len(request.messages) :
        /\ ~IsSome(get(request.messages[i], "content"))
        /\ ~request.messages[i].is_object

\* The moonshotai arm that leaves the temperature as it is
MoonshotValidation_NoTemperature(request) ==
    [request EXCEPT
       !.max_tokens = IF IsSome(@) /\ @[1] > 32768 THEN Some(16384) ELSE @]

\* validate_and_clean_request, the moonshotai arm
MoonshotValidation(request) ==
    [request EXCEPT
       !.max_tokens = IF IsSome(@) /\ @[1] > 32768 THEN Some(16384) ELSE @,
       !.temperature = IF IsSome(@) /\ ~in_range(@[1]) THEN Some(600) ELSE @]

validate_and_clean_request(request) ==
    LET cleaned == [request EXCEPT
                      !.messages = [i \in 1..Len(@) |-> ValidateMessage(@[i])]]
    IN IF starts_with(cleaned.model, S_moonshotai)
       THEN MoonshotValidation(cleaned)
       ELSE IF starts_with(cleaned.model, S_deepseek_slash)
       THEN [cleaned EXCEPT
               !.temperature = IF IsSome(@) /\ @[1] > 1500 THEN Some(1000)
                               ELSE @]
       ELSE [cleaned EXCEPT
               !.temperature = IF IsSome(@) /\ ~in_range(@[1]) THEN Some(1000)
                               ELSE @]

\* Result::Ok
Ok(value) == [ok |-> TRUE, value |-> value]
\* the call does not return: it panics
Panic(message) == [ok |-> FALSE, panic |-> message]

anthropic_to_openai(req) ==
    LET messages == SystemMessages(req.system)
                    \o [i \in 1..Len(req.messages) |->
                          ConvertMessage(req.messages[i])]
        max_tokens == req.max_tokens
        mapped_model == map_model(req.model)
        cleaned_tools ==
            IF IsSome(req.tools)
            THEN Some([i \in 1..Len(req.tools[1]) |-> CleanTool(req.tools[1][i])])
            ELSE NoneV
        adjusted == apply_model_specific_transforms(
                        mapped_model, req.temperature, max_tokens,
                        cleaned_tools, req.stream)
        openai_request == [model |-> mapped_model,
                           messages |-> messages,
                           temperature |-> adjusted.temperature,
                           tools |-> adjusted.tools,
                           stream |-> adjusted.stream,
                           max_tokens |-> adjusted.max_tokens]
    IN IF unwrap_panics(openai_request)
       THEN Panic("called Option::unwrap() on a None value")
       ELSE Ok(validate_and_clean_request(openai_request))

\* ------------------------------------------------------------- the requests
S_Hi == <<"H", "i">>
\* a part of an array content: a text part, or a part of another type, with
\* a text that is not a string or with none
TextPart(s) == [type |-> "text", text |-> Some(JString(s))]
OtherPart(text) == [type |-> "image", text |-> text]

Message(role, content) == [is_object |-> TRUE, role |-> role, content |-> content]

MessageSet ==
    { Message(Some("user"), Some(JString(S_Hi))),
      Message(Some("assistant"), Some(JString(<<>>))),
      Message(Some("user"), Some(JString(<<" ", "\n">>))),
      Message(Some("user"), Some(JArray(<<TextPart(S_Hi), TextPart(<<"a">>)>>))),
      Message(Some("user"), Some(JArray(<<OtherPart(NoneV), TextPart(<<"a">>)>>))),
      Message(Some("assistant"), Some(JArray(<<>>))),
      Message(Some("user"), Some(JArray(<<OtherPart(NoneV), OtherPart(Some(JOther("number")))>>))),
      Message(Some("user"), Some(JArray(<<TextPart(Space), TextPart(Space)>>))),
      Message(Some("user"), NoneV),
      Message(Some("user"), Some(JOther("null"))),
      Message(Some("tool"), Some(JOther("object"))),
      Message(NoneV, Some(JString(S_Hi))),
      [is_object |-> FALSE, role |-> NoneV, content |-> NoneV] }

SystemSet ==
    { NoneV, Some(JString(S_Hi)), Some(JString(<<>>)), Some(JString(<<" ", " ">>)),
      Some(JArray(<<TextPart(S_Hi)>>)), Some(JOther("object")) }

Schema(cache_control, properties) ==
    [is_object |-> TRUE, type |-> "object", cache_control |-> cache_control,
     properties |-> properties]
Tool(name, cache_control, input_schema) ==
    [is_object |-> TRUE, name |-> name, cache_control |-> cache_control,
     input_schema |-> input_schema]
Ephemeral == Some("ephemeral")

ToolSet ==
    { Tool("t1", NoneV, Some(Schema(NoneV, NoneV))),
      Tool("t2", Ephemeral, Some(Schema(NoneV, NoneV))),
      Tool("t3", NoneV, Some(Schema(Ephemeral, NoneV))),
      Tool("t4", Ephemeral,
           Some(Schema(Ephemeral, Some([cache_control |-> Ephemeral])))),
      Tool("t5", Ephemeral, NoneV),
      [is_object |-> FALSE, name |-> "", cache_control |-> NoneV,
       input_schema |-> NoneV] }

M_kimi == <<"m", "o", "o", "n", "s", "h", "o", "t", "a", "i", "/", "k", "i", "m", "i", "-", "k", "2", ":", "f", "r", "e", "e">>
M_gpt4 == <<"g", "p", "t", "-", "4">>
RequestModels ==
    { M_kimi, M_gpt4, S_haiku, S_deepseek_slash \o <<"r", "1">>,
      <<"m", "y", "-">> \o S_deepseek, <<"o", "p", "e", "n", "a", "i", "/", "g", "p", "t", "-", "4">>,
      <<"g", "o", "o", "g", "l", "e", "/", "g", "e", "m", "i", "n", "i">> }

\* in thousandths
Temperatures == {-500, 0, 700, 1000, 1500, 1665, 1670, 2000, 2005, 5000}
MaxTokens == {1, 16384, 32768, 32769, 2147483647}

Opt(S) == {NoneV} \cup {Some(x) : x \in S}
UpTo(S, n) == UNION {[1..k -> S] : k \in 0..n}

Request(model, messages, system, temperature, tools, stream, max_tokens) ==
    [model |-> model, messages |-> messages, system |-> system,
     temperature |-> temperature, tools |-> tools, stream |-> stream,
     max_tokens |-> max_tokens]

\* Every list of messages with every system value; every setting of the
\* parameters; every list of tools.
Requests ==
    { Request(M_gpt4, ms, sys, NoneV, NoneV, NoneV, NoneV) :
        ms \in UpTo(MessageSet, MaxMessages), sys \in SystemSet }
    \cup
    { Request(m, <<Message(Some("user"), Some(JString(S_Hi)))>>, NoneV,
              t, tl, st, mt) :
        m \in RequestModels, t \in Opt(Temperatures),
        tl \in {NoneV, Some(<<Tool("t2", Ephemeral, Some(Schema(NoneV, NoneV)))>>)},
        st \in Opt(BOOLEAN), mt \in Opt(MaxTokens) }
    \cup
    { Request(m, <<Message(Some("user"), Some(JString(S_Hi)))>>, NoneV,
              NoneV, Some(tl), NoneV, NoneV) :
        m \in {M_gpt4, M_kimi, S_haiku}, tl \in UpTo(ToolSet, MaxTools) }

\* A call of anthropic_to_openai.
AnthropicToOpenAICall(req) ==
    /\ call = NoneV
    /\ call' = Some([fn |-> "anthropic_to_openai", arg |-> req])
    /\ ret' = Some(anthropic_to_openai(req))
    /\ UNCHANGED streaming_vars

NextReq == \E req \in Requests : AnthropicToOpenAICall(req)

SpecReq == Init /\ [][NextReq]_vars

\* --------------------------------------- properties of the request transcoder
Src == call[1].arg
Dst == ret[1].value
Transcoded == IsCall("anthropic_to_openai") /\ ret[1].ok
Moonshot == starts_with(map_model(Src.model), S_moonshotai)

\* C11: every message of the destination request, the system message too,
\* has a content that is a non-empty string.
C11_ContentNonEmptyString ==
    Transcoded =>
        \A i \in 1..Len(Dst.messages) :
            /\ IsSome(Dst.messages[i].content)
            /\ Dst.messages[i].content[1].kind = "string"
            /\ Dst.messages[i].content[1].str # <<>>

\* What the messages without the system message must be like: one per source
\* message, in order, each with the role of its source message.
ConvertedOneToOne(msgs) ==
    /\ Len(msgs) = Len(Src.messages)
    /\ \A i \in 1..Len(msgs) : msgs[i].role = get(Src.messages[i], "role")

\* The destination messages after the system message, if there is one.
AfterSystem ==
    IF IsSome(Src.system) THEN Tail(Dst.messages) ELSE Dst.messages

\* C12 as stated: the destination messages are the source messages, one to
\* one, in order, roles copied, preceded by {role: system, content: system}
\* when there is a system value and by nothing otherwise.
C12_SystemVerbatim ==
    Transcoded =>
        /\ Len(Dst.messages) = Len(Src.messages) + Len(Src.system)
        /\ ConvertedOneToOne(AfterSystem)
        /\ IsSome(Src.system) =>
              /\ Dst.messages[1].role = Some("system")
              /\ Dst.messages[1].content = Src.system

\* C12 as amended: the same, where the content of the system message is the
\* system value, or a single space when the system value is a string that is
\* empty or all whitespace.
C12_OrderAndCount ==
    Transcoded =>
        /\ Len(Dst.messages) = Len(Src.messages) + Len(Src.system)
        /\ ConvertedOneToOne(AfterSystem)
        /\ IsSome(Src.system) =>
              /\ Dst.messages[1].role = Some("system")
              /\ Dst.messages[1].content =
                    IF Src.system[1].kind = "string"
                       /\ trim_is_empty(Src.system[1].str)
                    THEN Some(JString(Space))
                    ELSE Src.system

C12_Witness ==
    /\ Transcoded
    /\ Src.system = Some(JString(<<>>))
    /\ Len(Src.messages) = 2
    /\ Src.messages[1].role # Src.messages[2].role
    /\ Len(Dst.messages) = 3
    /\ Dst.messages[1].content = Some(JString(Space))

\* C17: for a mapped model of the moonshotai family the destination request
\* has no tools, and max_tokens is the caller's value when set and at most
\* 32768, and 16384 otherwise.
C17_MoonshotToolsAndMaxTokens ==
    (Transcoded /\ Moonshot) =>
        /\ Dst.tools = NoneV
        /\ Dst.max_tokens =
              IF IsSome(Src.max_tokens) /\ Src.max_tokens[1] <= 32768
              THEN Src.max_tokens
              ELSE Some(16384)

C17_Witness ==
    /\ Transcoded /\ Moonshot
    /\ IsSome(Src.tools)
    /\ Src.max_tokens = Some(32769)
    /\ Dst.tools = NoneV
    /\ Dst.max_tokens = Some(16384)

C19_TemperatureForwarded ==
    (Transcoded /\ contains(Src.model, S_slash)
     /\ IsSome(Src.temperature) /\ in_range(Src.temperature[1])) =>
        Dst.temperature = Src.temperature

\* A destination tool is its source tool but for cache_control at the top
\* level and directly inside an input_schema object.
SameButCacheControl(src, dst) ==
    /\ dst.is_object = src.is_object
    /\ dst.name = src.name
    /\ IsSome(dst.input_schema) = IsSome(src.input_schema)
    /\ src.is_object => dst.cache_control = NoneV
    /\ IsSome(src.input_schema) =>
          /\ dst.input_schema[1].is_object = src.input_schema[1].is_object
          /\ dst.input_schema[1].type = src.input_schema[1].type
          /\ dst.input_schema[1].properties = src.input_schema[1].properties
          /\ dst.input_schema[1].cache_control = NoneV

HasCacheControl(tool) ==
    \/ IsSome(tool.cache_control)
    \/ IsSome(tool.input_schema) /\ IsSome(tool.input_schema[1].cache_control)

\* C20: for a mapped model outside the moonshotai family the destination
\* tools are the source tools, as many and in order, without cache_control
\* at the top level or directly inside input_schema, every other field
\* unchanged; tools without cache_control are forwarded as they are.
C20_ToolsCleaned ==
    (Transcoded /\ ~Moonshot) =>
        /\ IsSome(Dst.tools) = IsSome(Src.tools)
        /\ IsSome(Src.tools) =>
              /\ Len(Dst.tools[1]) = Len(Src.tools[1])
              /\ \A i \in 1..Len(Src.tools[1]) :
                    /\ SameButCacheControl(Src.tools[1][i], Dst.tools[1][i])
                    /\ ~HasCacheControl(Src.tools[1][i]) =>
                          Dst.tools[1][i] = Src.tools[1][i]

C20_Witness ==
    /\ Transcoded /\ ~Moonshot
    /\ IsSome(Src.tools) /\ Len(Src.tools[1]) = 2
    /\ Src.tools[1][1].name = "t4" /\ Src.tools[1][2].name = "t1"
    /\ Dst.tools[1][1].name = "t4" /\ ~HasCacheControl(Dst.tools[1][1])
    /\ Dst.tools[1][1].input_schema[1].properties
          = Some([cache_control |-> Ephemeral])
    /\ Dst.tools[1][2] = Src.tools[1][2]

\* ========================================================= Response Transcoder
\* Result::Err
Err(error) == [ok |-> FALSE, error |-> error]

\* value["key"].as_str() and value["key"].as_array(), the field being NoneV
\* when the key is absent (indexing then yields null)
field_as_str(field) == IF IsSome(field) THEN as_str(field[1]) ELSE NoneV
field_as_array(field) == IF IsSome(field) THEN as_array(field[1]) ELSE NoneV

\* The last choice is taken.
FirstChoice_Last(choices) == choices[Len(choices)]

\* choices[0].clone()
FirstChoice(choices) == choices[1]

\* The tool calls are looked at before the content.
ResponseContent_ToolCallsFirst(message) ==
    IF IsSome(field_as_array(message.tool_calls))
    THEN [i \in 1..Len(field_as_array(message.tool_calls)[1]) |->
            LET tc == field_as_array(message.tool_calls)[1][i]
            IN [type |-> "tool_use", id |-> tc.id, name |-> tc.name,
                input |-> tc.arguments]]
    ELSE IF IsSome(field_as_str(message.content))
    THEN <<[type |-> "text", text |-> field_as_str(message.content)[1]]>>
    ELSE <<>>

\* "Convert content based on response type"
ResponseContent(message) ==
    IF IsSome(field_as_str(message.content))
    THEN <<[type |-> "text", text |-> field_as_str(message.content)[1]]>>
    ELSE IF IsSome(field_as_array(message.tool_calls))
    THEN [i \in 1..Len(field_as_array(message.tool_calls)[1]) |->
            LET tc == field_as_array(message.tool_calls)[1][i]
            IN [type |-> "tool_use", id |-> tc.id, name |-> tc.name,
                input |-> tc.arguments]]
    ELSE <<>>

S_tool_calls == <<"t", "o", "o", "l", "_", "c", "a", "l", "l", "s">>

\* Every finish_reason but "stop" is reported as tool_use.
MapFinishReason_NotStop(finish_reason) ==
    IF field_as_str(finish_reason) = Some(<<"s", "t", "o", "p">>)
    THEN Some("end_turn") ELSE Some("tool_use")

\* "Map OpenAI finish_reason to Anthropic stop_reason"
MapFinishReason(finish_reason) ==
    IF field_as_str(finish_reason) = Some(S_tool_calls)
    THEN Some("tool_use") ELSE Some("end_turn")

\* The upstream response is [choices]; a choice is [message, finish_reason],
\* a message [content, tool_calls], a tool call [id, name, arguments].
openai_to_anthropic(openai_response, model) ==
    LET choices == field_as_array(openai_response.choices) IN
    IF ~IsSome(choices) THEN Err("Response missing choices array")
    ELSE IF choices[1] = <<>> THEN Err("Response has empty choices array")
    ELSE
      LET choice == FirstChoice(choices[1])
          message == choice.message
      IN Ok([type |-> "message", role |-> "assistant",
             content |-> ResponseContent(message),
             stop_reason |-> MapFinishReason(choice.finish_reason),
             stop_sequence |-> NoneV,
             model |-> model])

\* ------------------------------------------------------------ the responses
\* number of tool calls of a response message
MaxCalls == 2

\* The tool calls of the responses.
ToolCallSet ==
    { [id |-> Some("call_123"), name |-> Some("get_weather"),
       arguments |-> Some("{}")],
      [id |-> Some("call_456"), name |-> NoneV, arguments |-> NoneV] }

\* The choices of the responses: every content, tool_calls and finish_reason.
Choices ==
    [message : [content : {NoneV, Some(JOther("null")), Some(JString(S_Hi)),
                           Some(JString(<<>>))},
                tool_calls : {NoneV, Some(JOther("null"))}
                             \cup {Some(JArray(tcs)) : tcs \in UpTo(ToolCallSet, MaxCalls)}],
     finish_reason : {NoneV, Some(JOther("null")), Some(JString(S_tool_calls)),
                      Some(JString(<<"s", "t", "o", "p">>)),
                      Some(JString(<<"l", "e", "n", "g", "t", "h">>))}]

\* The responses: without a list of choices, with one choice, with two.
UpstreamBodies ==
    { [choices |-> c] :
        c \in {NoneV, Some(JOther("null")), Some(JOther("object")),
               Some(JArray(<<>>))} }
    \cup { [choices |-> Some(JArray(<<c>>))] : c \in Choices }
    \cup { [choices |-> Some(JArray(<<c, d>>))] :
             c \in Choices,
             d \in {x \in Choices :
                      /\ x.message.content = Some(JString(S_Hi))
                      /\ x.message.tool_calls = NoneV
                      /\ x.finish_reason = NoneV} }

\* A call of openai_to_anthropic.
OpenAIToAnthropicCall(openai_response, model) ==
    /\ call = NoneV
    /\ call' = Some([fn |-> "openai_to_anthropic", arg |-> openai_response,
                     model |-> model])
    /\ ret' = Some(openai_to_anthropic(openai_response, model))
    /\ UNCHANGED streaming_vars

NextResp ==
    \E openai_response \in UpstreamBodies, model \in {S_haiku, M_kimi} :
        OpenAIToAnthropicCall(openai_response, model)

SpecResp == Init /\ [][NextResp]_vars

\* ================================================================ The handler
S_Bearer == <<"B", "e", "a", "r", "e", "r", " ">>

\* The prefix is not removed.
strip_prefix_Kept(s, prefix) ==
    IF starts_with(s, prefix) THEN Some(s) ELSE NoneV

\* str::strip_prefix
strip_prefix(s, prefix) ==
    IF starts_with(s, prefix) THEN Some(SubSeq(s, Len(prefix) + 1, Len(s)))
    ELSE NoneV

\* Only the statuses from 500 on are failures.
is_success_Below500(status) == status < 500

\* response.status().is_success()
is_success(status) == 200 <= status /\ status <= 299

\* Every status from 400 on but the five named is a not_found_error.
ErrorType_NotFound(status_code) ==
    CASE status_code = 400 -> "invalid_request_error"
      [] status_code = 401 -> "authentication_error"
      [] status_code = 403 -> "permission_error"
      [] status_code = 429 -> "rate_limit_error"
      [] status_code >= 500 /\ status_code <= 599 -> "api_error"
      [] OTHER -> "not_found_error"

\* The `match status_code` of the envelope's error.type
ErrorType(status_code) ==
    CASE status_code = 400 -> "invalid_request_error"
      [] status_code = 401 -> "authentication_error"
      [] status_code = 403 -> "permission_error"
      [] status_code = 404 -> "not_found_error"
      [] status_code = 429 -> "rate_limit_error"
      [] status_code >= 500 /\ status_code <= 599 -> "api_error"
      [] OTHER -> "api_error"

\* transform_openrouter_error.  error_text is [text, parsed]: the body and
\* what serde_json::from_str makes of it (NoneV when it is not JSON; a field
\* of the parsed value is NoneV when .get(..) or .as_str() yields None).  A
\* String built with format! is the sequence of its segments, each the
\* format string and its argument; the request time is the argument "now".
transform_openrouter_error(error_text, status_code, request) ==
    LET Info(line, value) == <<[line |-> line, value |-> value]>>
        InfoIf(line, option) ==
            IF IsSome(option) THEN Info(line, option) ELSE <<>>
        context ==
            Info("OpenRouter API Error (HTTP {})\n", <<status_code>>)
            \o Info("Request Model: {}\n", <<request.model>>)
            \o Info("Message Count: {}\n", <<Len(request.messages)>>)
            \o InfoIf("Max Tokens: {}\n", request.max_tokens)
            \o InfoIf("Temperature: {}\n", request.temperature)
            \o InfoIf("Streaming: {}\n", request.stream)
            \o (IF IsSome(request.tools) THEN Info("Tools: Enabled\n", <<>>)
                ELSE <<>>)
            \o Info("\n", <<>>)
        parsed == error_text.parsed
        error_obj == IF IsSome(parsed) THEN parsed[1].error ELSE NoneV
        error_code == IF IsSome(error_obj) THEN error_obj[1].code ELSE NoneV
        param_info == IF IsSome(error_obj) THEN error_obj[1].param ELSE NoneV
        details ==
            IF IsSome(parsed)
            THEN (IF IsSome(error_obj)
                  THEN InfoIf("Error Details: {}\n", error_obj[1].message)
                       \o InfoIf("Error Code: {}\n", error_code)
                       \o InfoIf("Invalid Parameter: '{}'\n", param_info)
                       \o (IF IsSome(error_obj[1].details)
                           THEN IF error_obj[1].details[1].kind = "string"
                                THEN Info("Additional Details: {}\n",
                                          <<error_obj[1].details[1].shown>>)
                                ELSE IF error_obj[1].details[1].kind
                                          \in {"object", "array"}
                                THEN Info("Validation Details: {}\n",
                                          <<error_obj[1].details[1].shown>>)
                                ELSE <<>>
                           ELSE <<>>)
                       \o InfoIf("Model Context: {}\n", error_obj[1].model)
                  ELSE <<>>)
                 \o InfoIf("User ID: {}\n", parsed[1].user_id)
                 \o InfoIf("Request ID: {}\n", parsed[1].request_id)
                 \o Info("\nOriginal OpenRouter Response:\n{}\n",
                         <<error_text.text>>)
            ELSE Info("Raw Error Response: {}\n", <<error_text.text>>)
        suggestions ==
            CASE status_code = 400 ->
                   <<"Check your request parameters and format",
                     "Verify the model name is correct for OpenRouter",
                     "Ensure message content is properly formatted">>
                   \o (IF IsSome(request.max_tokens)
                          /\ request.max_tokens[1] > 32000
                       THEN <<"Try reducing max_tokens (some models have lower limits)">>
                       ELSE <<>>)
              [] status_code = 401 ->
                   <<"Verify your OpenRouter API key is correct",
                     "Check if your API key has necessary permissions",
                     "Ensure ANTHROPIC_API_KEY environment variable is set">>
              [] status_code = 403 ->
                   <<"Your API key doesn't have access to this model",
                     "Check your OpenRouter account permissions",
                     "Verify the model is available in your OpenRouter plan">>
              [] status_code = 404 ->
                   <<"The specified model was not found",
                     "Check available models at https://openrouter.ai/models",
                     "Verify the model name format (e.g., 'anthropic/claude-3.5-sonnet')">>
              [] status_code = 429 ->
                   <<"You've exceeded the rate limit",
                     "Wait before making another request",
                     "Consider upgrading your OpenRouter plan">>
              [] status_code >= 500 /\ status_code <= 599 ->
                   <<"OpenRouter is experiencing server issues",
                     "Try again in a few moments",
                     "Check OpenRouter status page for outages">>
              [] OTHER ->
                   <<"Check OpenRouter documentation for this error",
                     "Verify your request format matches OpenRouter API spec">>
        troubleshooting ==
            IF suggestions # <<>>
            THEN Info("\nTroubleshooting Suggestions:\n", <<>>)
                 \o Flatten([i \in 1..Len(suggestions) |->
                                Info("{}. {}\n", <<i, suggestions[i]>>)])
            ELSE <<>>
        debugging ==
            Info("\nDebugging Information:\n", <<>>)
            \o Info("- CCR Proxy: https://ccr.duyet.net\n", <<>>)
            \o Info("- OpenRouter Dashboard: https://openrouter.ai/activity\n", <<>>)
            \o Info("- Request Time: {}\n", <<"now">>)
        comprehensive_message == context \o details \o troubleshooting \o debugging
        request_context ==
            [model |-> request.model,
             messages_count |-> Len(request.messages),
             max_tokens |-> request.max_tokens,
             temperature |-> request.temperature,
             stream |-> request.stream,
             has_tools |-> IsSome(request.tools),
             has_system |-> IsSome(request.system)]
        error == [type |-> ErrorType(status_code),
                  message |-> comprehensive_message,
                  request_context |-> request_context]
        with_code == IF IsSome(error_code) THEN ("code" :> error_code[1]) ELSE <<>>
        with_param == IF IsSome(param_info) THEN ("param" :> param_info[1]) ELSE <<>>
    IN [type |-> "error", error |-> error @@ with_code @@ with_param]

\* The error bodies: not JSON; JSON with an error object, with an error that
\* is not an object, without an error.
ErrorBodies ==
    LET ErrorObj(message, code, param, details, model) ==
            Some([message |-> message, code |-> code, param |-> param,
                  details |-> details, model |-> model])
        Parsed(error, user_id, request_id) ==
            Some([error |-> error, user_id |-> user_id,
                  request_id |-> request_id])
    IN { [text |-> "not json", parsed |-> NoneV],
         [text |-> "{\"error\":{\"message\":\"Rate limited\",\"code\":429,\"param\":\"model\"}}",
          parsed |-> Parsed(ErrorObj(Some("Rate limited"), Some("429"),
                                     Some("model"), NoneV, NoneV),
                            NoneV, NoneV)],
         [text |-> "{\"error\":{\"message\":\"Bad\",\"details\":\"more\",\"model\":\"m\"},\"user_id\":\"u1\"}",
          parsed |-> Parsed(ErrorObj(Some("Bad"), NoneV, NoneV,
                                     Some([kind |-> "string", shown |-> "more"]),
                                     Some("m")),
                            Some("u1"), NoneV)],
         [text |-> "{\"error\":{\"message\":42,\"details\":{\"a\":1}},\"request_id\":\"r1\"}",
          parsed |-> Parsed(ErrorObj(NoneV, NoneV, NoneV,
                                     Some([kind |-> "object",
                                           shown |-> "{\n  \"a\": 1\n}"]),
                                     NoneV),
                            NoneV, Some("r1"))],
         [text |-> "{\"error\":\"boom\"}",
          parsed |-> Parsed(ErrorObj(NoneV, NoneV, NoneV, NoneV, NoneV),
                            NoneV, NoneV)],
         [text |-> "{}", parsed |-> Parsed(NoneV, NoneV, NoneV)] }

\* status codes of upstream answers
Statuses == {200, 204, 302, 400, 401, 403, 404, 418, 429, 500, 503, 599, 600}

\* A call of transform_openrouter_error.
TransformErrorCall(error_text, status_code, request) ==
    /\ call = NoneV
    /\ call' = Some([fn |-> "transform_openrouter_error", arg |-> error_text,
                     status_code |-> status_code, request |-> request])
    /\ ret' = Some(transform_openrouter_error(error_text, status_code, request))
    /\ UNCHANGED streaming_vars

NextErr ==
    \E error_text \in ErrorBodies, status_code \in Statuses,
       request \in {r \in Requests :
                      /\ r.system = NoneV /\ r.stream = NoneV
                      /\ r.temperature \in {NoneV, Some(700)}
                      /\ r.max_tokens \in {NoneV, Some(32769)}
                      /\ r.model = M_kimi /\ Len(r.messages) = 1} :
        TransformErrorCall(error_text, status_code, request)

SpecErr == Init /\ [][NextErr]_vars

\* The handler reports the model of the upstream request
EchoedModel_Mapped(anthropic_request, openai_request) == openai_request.model

\* &anthropic_request.model, the model argument of both transcoders
EchoedModel(anthropic_request, openai_request) == anthropic_request.model

\* handle_messages up to the upstream request: the credential, the request
\* parsed (json is the Result of req.json()) and transcoded, the request sent.
HandleMessages(headers, json) ==
    /\ pc = "request"
    /\ LET api_key ==
             IF IsSome(headers.x_api_key) THEN Ok(headers.x_api_key[1])
             ELSE IF IsSome(headers.authorization)
             THEN LET stripped == strip_prefix(headers.authorization[1], S_Bearer)
                  IN IF IsSome(stripped) THEN Ok(stripped[1])
                     ELSE Err("Invalid Authorization header format")
             ELSE Ok(<<>>)
           no_key == ~IsSome(headers.x_api_key) /\ ~IsSome(headers.authorization)
           openai_request == IF json.ok THEN anthropic_to_openai(json.value)
                             ELSE json
           sent == ~no_key /\ api_key.ok /\ openai_request.ok
       IN /\ call' = Some([fn |-> "handle_messages",
                           arg |-> IF json.ok THEN Some(json.value) ELSE NoneV,
                           headers |-> headers,
                           upstream |->
                             IF sent
                             THEN Some([authorization |-> S_Bearer \o api_key.value,
                                        json |-> openai_request.value])
                             ELSE NoneV,
                           answer |-> NoneV])
          /\ pc' = IF sent THEN "upstream" ELSE "done"
          /\ ret' = IF no_key
                    THEN Some(Ok([status |-> 401,
                                  body |-> "No API key found in x-api-key or Authorization header"]))
                    ELSE IF ~api_key.ok THEN Some(api_key)
                    ELSE IF ~openai_request.ok THEN Some(openai_request)
                    ELSE NoneV
    /\ UNCHANGED <<buffer, state, output_lines, response, socket, inflight,
                   chunks_in, ended_by, nwrites, peer>>

\* handle_messages from the upstream response on: the error envelope, the
\* start of the streaming transcoder, or the response transcoder.  The
\* answer has a status and a body, which response.json() reads as `body`
\* and response.text() as `error_text`.
UpstreamResponds(status, body, error_text) ==
    /\ pc = "upstream"
    /\ call' = Some([call[1] EXCEPT
                       !.answer = Some([status |-> status, body |-> body,
                                        error_text |-> error_text])])
    /\ LET anthropic_request == call[1].arg[1]
           openai_request == call[1].upstream[1].json
           model == EchoedModel(anthropic_request, openai_request)
           streaming == IsSome(anthropic_request.stream)
                        /\ anthropic_request.stream[1]
       IN IF ~is_success(status)
          THEN /\ ret' = Some(Ok([status |-> status,
                                  body |-> transform_openrouter_error(
                                               error_text, status,
                                               anthropic_request)]))
               /\ pc' = "done"
               /\ UNCHANGED output_lines
          ELSE IF streaming
          THEN /\ output_lines' =
                     format_sse_event("message_start", MessageStartFor(model))
               /\ pc' = "reading"
               /\ UNCHANGED ret
          ELSE /\ ret' = LET r == openai_to_anthropic(body, model)
                         IN Some(IF r.ok
                                 THEN Ok([status |-> 200, body |-> r.value])
                                 ELSE r)
               /\ pc' = "done"
               /\ UNCHANGED output_lines
    /\ UNCHANGED <<buffer, state, response, socket, inflight, chunks_in,
                   ended_by, nwrites, peer>>

\* The upstream request fails: send() returns an error, that the handler
\* returns.
UpstreamFails ==
    /\ pc = "upstream"
    /\ pc' = "done"
    /\ ret' = Some(Err("Request failed: {e}"))
    /\ UNCHANGED <<call, buffer, state, output_lines, response, socket,
                   inflight, chunks_in, ended_by, nwrites, peer>>

InitProxy ==
    /\ pc = "request"
    /\ buffer = <<>>
    /\ state = StreamingState_new
    /\ output_lines = <<>>
    /\ response = NoneV
    /\ socket = <<>>
    /\ inflight = NoneV
    /\ chunks_in = <<>>
    /\ ended_by = "open"
    /\ nwrites = 0
    /\ call = NoneV
    /\ ret = NoneV
    /\ peer = NoneV

HeaderSet ==
    [x_api_key : {NoneV, Some(<<"k", "1">>)},
     authorization : {NoneV, Some(S_Bearer \o <<"k", "2">>),
                      Some(<<"k", "2">>), Some(S_Bearer)}]

ProxyRequests ==
    { Request(m, <<Message(Some("user"), Some(JString(S_Hi)))>>, NoneV,
              NoneV, NoneV, st, NoneV) :
        m \in {S_haiku, M_kimi, M_gpt4, S_deepseek_slash \o <<"r", "1">>},
        st \in Opt(BOOLEAN) }

\* The upstream answers with a 2xx status and a completion, or with
\* another status and an error body.  The body of a streamed answer is read
\* from the socket and not as one JSON value.
NextProxy ==
    \/ \E h \in HeaderSet,
          json \in {Ok(req) : req \in ProxyRequests}
                   \cup {Err("Failed to parse JSON")} :
          HandleMessages(h, json)
    \/ \E status \in {st \in Statuses : st \in 200..299},
          body \in {b \in UpstreamBodies :
                     (/\ IsSome(call) /\ IsSome(call[1].arg)
                      /\ call[1].arg[1].stream = Some(TRUE)) =>
                         b.choices = NoneV},
          error_text \in {e \in ErrorBodies : e.text = "{}"} :
          UpstreamResponds(status, body, error_text)
    \/ \E status \in {st \in Statuses : st \notin 200..299},
          body \in {b \in UpstreamBodies : b.choices = NoneV},
          error_text \in ErrorBodies :
          UpstreamResponds(status, body, error_text)
    \/ UpstreamFails
    \/ \E l \in {TextLine(<<"a">>), DoneLine} : SendLine(l)
    \/ RecvChunk
    \/ RecvEnd
    \/ RecvErr

SpecProxy == InitProxy /\ [][NextProxy]_vars

\* ------------------------------------------------- one body, many chunkings
\* lines of a body
MaxBodyLines == 2

\* The loop of format_streaming_response over the chunks of a body.
RECURSIVE StreamLoop(_, _, _)
StreamLoop(chunks, buf, r) ==
    IF chunks = <<>> THEN r
    ELSE LET text == buf \o from_utf8_lossy(chunks[1])
         IN StreamLoop(Tail(chunks), new_buffer(text),
                       ProcessLines(CompleteLines(text), r))

\* format_streaming_response on a body that arrives in `chunks` and ends.
format_streaming_response(chunks) ==
    LET r == StreamLoop(chunks, <<>>,
                        [state |-> StreamingState_new, events |-> <<>>])
    IN format_sse_event("message_start", MessageStart)
       \o r.events \o Closing(r.state)

\* The chunks in which the lines of `body` arrive, each line with its
\* newline: cuts[i].mode tells where line i is cut ("whole": nowhere, "line":
\* between two characters, "char": inside a character, "nl": before its
\* newline) and cuts[i].break whether a chunk ends after its newline; cur is
\* the chunk under way.
RECURSIVE Chunked(_, _, _)
Chunked(body, cuts, cur) ==
    IF body = <<>> THEN (IF cur = <<>> THEN <<>> ELSE <<cur>>)
    ELSE LET l == body[1]
             mode == cuts[1].mode
             ended == IF mode = "whole" THEN <<>>
                      ELSE IF mode = "line" THEN <<cur \o <<LineHead(l)>>>>
                      ELSE IF mode = "char" THEN <<cur \o <<CharHead(l)>>>>
                      ELSE <<cur \o <<Whole(l)>>>>
             rest == IF mode = "whole" THEN cur \o <<Whole(l), NL>>
                     ELSE IF mode = "line" THEN <<LineTail(l), NL>>
                     ELSE IF mode = "char" THEN <<CharTail(l), NL>>
                     ELSE <<NL>>
         IN IF cuts[1].break
            THEN ended \o <<rest>> \o Chunked(Tail(body), Tail(cuts), <<>>)
            ELSE ended \o Chunked(Tail(body), Tail(cuts), rest)

\* A call of format_streaming_response on the body `body` chunked by `cuts`.
FormatStreamingResponseCall(body, cuts) ==
    /\ call = NoneV
    /\ call' = Some([fn |-> "format_streaming_response", body |-> body,
                     arg |-> Chunked(body, cuts, <<>>)])
    /\ ret' = Some(format_streaming_response(Chunked(body, cuts, <<>>)))
    /\ UNCHANGED streaming_vars

\* The bodies: text lines, one with a two-byte character, and tool-call
\* lines, with [DONE] as the last line or without it; every chunking of each.
NextChunk ==
    /\ call = NoneV
    /\ \E n \in 1..MaxBodyLines :
      \E lines \in [1..n -> {TextLine(<<"a">>), TextLine(<<"c", "U+00E9">>),
                             ToolLine(<<TcOpen1Args>>), ToolLine(<<TcArgs>>)}],
         done \in {<<>>, <<DoneLine>>} :
        \E cuts \in [1..Len(lines \o done) ->
                        [mode : {"whole", "line", "char", "nl"},
                         break : BOOLEAN]] :
          /\ \A i \in 1..Len(cuts) :
                cuts[i].mode = "char" =>
                    (lines \o done)[i] # Lossy((lines \o done)[i])
          /\ FormatStreamingResponseCall(lines \o done, cuts)

SpecChunk == Init /\ [][NextChunk]_vars

\* ------------------------------------------- two streaming responses at once
\* The worker serves a second streaming response while the first is in
\* progress.  Each call of format_streaming_response has its own locals:
\* `peer` holds those of the second call.

\* The second call reads the StreamingState of the first.
LocalState_Shared(locals) == state

\* `let mut state = StreamingState::new()`: the StreamingState a call of
\* format_streaming_response works on is a local of that call.
LocalState(locals) == locals.state

\* The chunks the second call reads before its stream ends.
MaxPeerChunks == 2

\* One iteration of the loop of the second call, on the chunk it receives.
PeerRecvChunk(chunk) ==
    /\ IsSome(peer) /\ peer[1].pc = "reading"
    /\ Len(peer[1].chunks_in) < MaxPeerChunks
    /\ LET locals == peer[1]
           text == locals.buffer \o from_utf8_lossy(chunk)
           lines == CompleteLines(text)
           r == ProcessLines(lines, [state |-> LocalState(locals),
                                     events |-> <<>>])
       IN peer' = Some([locals EXCEPT
                          !.state = r.state,
                          !.output_lines = locals.output_lines \o r.events,
                          !.buffer = new_buffer(text),
                          !.chunks_in = Append(locals.chunks_in, lines)])
    /\ UNCHANGED <<pc, buffer, state, output_lines, response, socket,
                   inflight, chunks_in, ended_by, nwrites, call, ret>>

\* The loop of the second call ends and the call returns.
PeerFinish ==
    /\ IsSome(peer) /\ peer[1].pc = "reading"
    /\ LET locals == peer[1]
       IN peer' = Some([locals EXCEPT
                          !.pc = "done",
                          !.output_lines =
                              locals.output_lines
                              \o Closing(LocalState(locals))])
    /\ UNCHANGED <<pc, buffer, state, output_lines, response, socket,
                   inflight, chunks_in, ended_by, nwrites, call, ret>>

InitTwo ==
    /\ pc = "reading"
    /\ buffer = <<>>
    /\ state = StreamingState_new
    /\ output_lines = format_sse_event("message_start", MessageStart)
    /\ response = NoneV
    /\ socket = <<>>
    /\ inflight = NoneV
    /\ chunks_in = <<>>
    /\ ended_by = "open"
    /\ nwrites = 0
    /\ call = NoneV
    /\ ret = NoneV
    /\ peer = Some([pc |-> "reading",
                     buffer |-> <<>>,
                     state |-> StreamingState_new,
                     output_lines |->
                         format_sse_event("message_start", MessageStart),
                     chunks_in |-> <<>>])

\* The steps of the two calls, in any order.  The first upstream sends a text
\* line or a tool-call line; the second call reads a text line, a tool-call
\* line or a line without its newline.
NextTwo ==
    \/ \E l \in {TextLine(<<"a">>), ToolLine(<<TcOpen1Args>>)} : SendLine(l)
    \/ RecvChunk
    \/ RecvEnd
    \/ RecvErr
    \/ \E chunk \in {<<Whole(TextLine(<<"b">>)), NL>>,
                      <<Whole(ToolLine(<<TcOpen2>>)), NL>>,
                      <<Whole(TextLine(<<"a">>))>>} :
          PeerRecvChunk(chunk)
    \/ PeerFinish

SpecTwo == InitTwo /\ [][NextTwo]_vars

\* C13: the model reported to the caller is the model of the caller's
\* request: in the response of a request that does not stream, and in the
\* message_start event of one that does.
C13_ModelEchoed ==
    IsCall("handle_messages") =>
        /\ (IsSome(ret) /\ ret[1].ok /\ ret[1].value.status = 200) =>
               ret[1].value.body.model = call[1].arg[1].model
        /\ output_lines # <<>> =>
               /\ output_lines[1].event = "message_start"
               /\ output_lines[1].data.model = call[1].arg[1].model
        /\ IsSome(response) =>
               response[1].body[1].data.model = call[1].arg[1].model

C13_Witness ==
    /\ IsCall("handle_messages")
    /\ IsSome(call[1].upstream)
    /\ call[1].arg[1].model = S_haiku
    /\ call[1].upstream[1].json.model = HaikuId
    /\ IsSome(response) /\ Len(response[1].body) > 3
    /\ response[1].body[1].data.model = S_haiku

FragmentStep ==
    \A id \in Opt({"t1", "t2", "t3"}), name \in Opt({"f1"}),
       arguments \in Opt({<<"x">>}) :
        LET tool_call == ToolCall(id, name, arguments)
            r == process_stream_delta(Delta(Some(<<tool_call>>), NoneV), state)
            brackets == SelectSeq(r.events,
                            LAMBDA e : e.event \in {"content_block_start",
                                                    "content_block_stop"})
            open == state.is_tool_use \/ state.has_started_text_block
            index == state.content_block_index
        IN IF IsSome(id) /\ id # state.current_tool_call_id
           THEN /\ r.state.content_block_index = index + 1
                /\ brackets =
                      (IF open
                       THEN <<[event |-> "content_block_stop",
                               data |-> [type |-> "content_block_stop",
                                         index |-> index]]>>
                       ELSE <<>>)
                      \o <<[event |-> "content_block_start",
                            data |-> [type |-> "content_block_start",
                                      index |-> index + 1,
                                      content_block |->
                                          [type |-> "tool_use",
                                           id |-> id[1],
                                           name |-> IF IsSome(name)
                                                    THEN name[1] ELSE ""]]]>>
           ELSE /\ brackets = <<>>
                /\ r.state.content_block_index = index

\* C30: a tool-call fragment whose id differs from the open id closes the
\* open block, if any, at the current index, raises the index by exactly 1
\* and opens a tool_use block at the new index with its id and name; a
\* fragment with the open id or no id emits no start or stop and keeps the
\* index; and the index never decreases.
C30_ToolBlockOpening ==
    /\ []FragmentStep
    /\ [][state'.content_block_index >= state.content_block_index]_vars

\* A second tool call has closed the block of the first at index 1 and has
\* opened its own at index 2, and a fragment of the same call has followed.
C30_Witness ==
    /\ state.is_tool_use
    /\ state.current_tool_call_id = Some("t2")
    /\ state.content_block_index = 2
    /\ \E i \in 1..Len(output_lines) - 2 :
          /\ output_lines[i].data = ContentBlockStop(1)
          /\ output_lines[i + 1].data = ContentBlockStartTool(2, "t2", "")
          /\ output_lines[i + 2].event = "content_block_delta"
    /\ lines_in # <<>>
    /\ lines_in[Len(lines_in)] = DeltaLine(Delta(Some(<<TcArgs>>), Some(<<"c">>)))
    /\ output_lines[Len(output_lines)].data =
           ContentBlockDelta(2, "input_json_delta", <<"z">>)

C29_StreamsIndependent ==
    LET locals == peer[1]
        alone == Replay(locals.chunks_in, Fresh)
    IN /\ OutputIs(Replay(chunks_in, Fresh))
       /\ locals.state = alone.state
       /\ locals.output_lines =
              format_sse_event("message_start", MessageStart)
              \o alone.events
              \o (IF locals.pc = "done" THEN Closing(alone.state) ELSE <<>>)
       /\ chunks_in = <<>> =>
              /\ state.content_block_index = 0
              /\ ~state.is_tool_use /\ ~state.has_started_text_block
       /\ locals.chunks_in = <<>> =>
              /\ locals.state.content_block_index = 0
              /\ ~locals.state.is_tool_use
              /\ ~locals.state.has_started_text_block

\* The first response has a tool_use block open at index 1 while the second
\* has a text block open at index 0, and both go on to their end.
C29_Witness ==
    /\ pc = "done" /\ peer[1].pc = "done"
    /\ state.is_tool_use /\ state.content_block_index = 1
    /\ peer[1].state.has_started_text_block
    /\ peer[1].state.content_block_index = 0
    /\ Len(chunks_in) = 2 /\ Len(peer[1].chunks_in) = 2

\* C28: no upstream request is issued without a credential of the caller:
\* with neither header the answer is 401 and nothing is sent; the
\* Authorization sent is "Bearer " and the credential, which is x-api-key
\* when present and otherwise Authorization without its "Bearer " prefix.
C28_CredentialRequired ==
    IsCall("handle_messages") =>
        LET headers == call[1].headers
            credential ==
                IF IsSome(headers.x_api_key) THEN headers.x_api_key[1]
                ELSE SubSeq(headers.authorization[1], Len(S_Bearer) + 1,
                            Len(headers.authorization[1]))
        IN /\ (headers.x_api_key = NoneV /\ headers.authorization = NoneV) =>
                  /\ call[1].upstream = NoneV
                  /\ pc = "done"
                  /\ IsSome(ret) /\ ret[1].ok /\ ret[1].value.status = 401
           /\ IsSome(call[1].upstream) =>
                  /\ IsSome(headers.x_api_key) \/ IsSome(headers.authorization)
                  /\ IsSome(headers.x_api_key)
                       \/ starts_with(headers.authorization[1], S_Bearer)
                  /\ call[1].upstream[1].authorization = S_Bearer \o credential
           /\ pc # "request" /\ pc # "done" => IsSome(call[1].upstream)

C28_Witness ==
    /\ IsCall("handle_messages")
    /\ call[1].headers.x_api_key = NoneV
    /\ IsSome(call[1].upstream)
    /\ call[1].upstream[1].authorization = S_Bearer \o <<"k", "2">>
    /\ IsSome(call[1].answer)

\* C21: anthropic_to_openai returns a destination request for every source
\* request: it returns no error and the unwraps of
\* validate_and_clean_request do not panic.
C21_Total ==
    IsCall("anthropic_to_openai") =>
        /\ ret[1].ok
        /\ Len(ret[1].value.messages) >= Len(call[1].arg.messages)
        /\ \A i \in 1..Len(ret[1].value.messages) :
              ret[1].value.messages[i].is_object

C21_Witness ==
    /\ IsCall("anthropic_to_openai") /\ ret[1].ok
    /\ Len(call[1].arg.messages) = 2
    /\ ~call[1].arg.messages[1].is_object
    /\ call[1].arg.messages[2].content = Some(JOther("null"))
    /\ Len(ret[1].value.messages) = 2

\* ------------------------------------- properties of the response transcoder
\* The choices of the upstream response of the call, when they are a list.
ChoiceList == field_as_array(call[1].arg.choices)

\* The first choice of a call that has one.
First == ChoiceList[1][1]

\* C22: openai_to_anthropic returns an error exactly when the response has
\* no choices field, one that is not a list, or an empty list; otherwise its
\* result is the result for the first choice alone.
C22_ErrorIffNoChoice ==
    IsCall("openai_to_anthropic") =>
        /\ ~ret[1].ok <=> (~IsSome(ChoiceList) \/ ChoiceList[1] = <<>>)
        /\ ret[1].ok =>
              LET alone == [choices |-> Some(JArray(<<First>>))]
              IN ret[1] = openai_to_anthropic(alone, call[1].model)

C22_Witness ==
    /\ IsCall("openai_to_anthropic")
    /\ IsSome(ChoiceList) /\ Len(ChoiceList[1]) = 2
    /\ First.message.content = NoneV
    /\ IsSome(First.message.tool_calls)
    /\ First.message.tool_calls[1].kind = "array"
    /\ ret[1].ok
    /\ Len(ret[1].value.content) = 1
    /\ ret[1].value.content[1].id = Some("call_123")

\* C23: string content gives one text block with that content; otherwise a
\* tool_calls list gives one tool_use block per call, in order, with the
\* call's id, name and arguments; otherwise there are no blocks.
C23_ContentBlocks ==
    (IsCall("openai_to_anthropic") /\ ret[1].ok) =>
        LET content == First.message.content
            tool_calls == First.message.tool_calls
            blocks == ret[1].value.content
        IN IF IsSome(content) /\ content[1].kind = "string"
           THEN /\ Len(blocks) = 1
                /\ blocks[1].type = "text"
                /\ blocks[1].text = content[1].str
           ELSE IF IsSome(tool_calls) /\ tool_calls[1].kind = "array"
           THEN /\ Len(blocks) = Len(tool_calls[1].items)
                /\ \A i \in 1..Len(blocks) :
                      /\ blocks[i].type = "tool_use"
                      /\ blocks[i].id = tool_calls[1].items[i].id
                      /\ blocks[i].name = tool_calls[1].items[i].name
                      /\ blocks[i].input = tool_calls[1].items[i].arguments
           ELSE blocks = <<>>

C23_Witness ==
    /\ IsCall("openai_to_anthropic") /\ ret[1].ok
    /\ First.message.content = Some(JOther("null"))
    /\ IsSome(First.message.tool_calls)
    /\ First.message.tool_calls[1].kind = "array"
    /\ Len(ret[1].value.content) = 2
    /\ ret[1].value.content[1].name = NoneV
    /\ ret[1].value.content[2].name = Some("get_weather")

\* C24: stop_reason is tool_use exactly when the first choice's
\* finish_reason is the string "tool_calls" and end_turn otherwise;
\* stop_sequence is absent.
C24_StopReason ==
    (IsCall("openai_to_anthropic") /\ ret[1].ok) =>
        /\ ret[1].value.stop_reason \in {Some("tool_use"), Some("end_turn")}
        /\ ret[1].value.stop_reason = Some("tool_use")
              <=> First.finish_reason = Some(JString(S_tool_calls))
        /\ ret[1].value.stop_sequence = NoneV

C24_Witness ==
    /\ IsCall("openai_to_anthropic") /\ ret[1].ok
    /\ First.finish_reason = Some(JOther("null"))
    /\ IsSome(First.message.tool_calls)
    /\ First.message.tool_calls[1].kind = "array"
    /\ First.message.tool_calls[1].items # <<>>
    /\ ret[1].value.stop_reason = Some("end_turn")

\* ---------------------------------------- properties of the error transcoder
\* C25: the envelope's error.type is decided by the status alone: 400, 401,
\* 403, 404 and 429 have their own type, every other status is an api_error.
C25_TypeByStatus ==
    IsCall("transform_openrouter_error") =>
        LET status == call[1].status_code
            named == (400 :> "invalid_request_error")
                     @@ (401 :> "authentication_error")
                     @@ (403 :> "permission_error")
                     @@ (404 :> "not_found_error")
                     @@ (429 :> "rate_limit_error")
        IN ret[1].error.type =
              IF status \in DOMAIN named THEN named[status] ELSE "api_error"

C25_Witness ==
    /\ IsCall("transform_openrouter_error")
    /\ call[1].status_code = 418
    /\ IsSome(call[1].arg.parsed)
    /\ IsSome(call[1].arg.parsed[1].error)
    /\ call[1].arg.parsed[1].error[1].code = Some("429")
    /\ ret[1].error.type = "api_error"

\* C26: the envelope is exactly {type: "error", error: {type, message}},
\* the message being the body's error.message when the body is JSON with
\* that field and the body itself otherwise.
C26_MessageIsUpstream ==
    IsCall("transform_openrouter_error") =>
        LET body == call[1].arg
            has_message == /\ IsSome(body.parsed)
                           /\ IsSome(body.parsed[1].error)
                           /\ IsSome(body.parsed[1].error[1].message)
            message == IF has_message THEN body.parsed[1].error[1].message[1]
                       ELSE body.text
        IN /\ ret[1].type = "error"
           /\ DOMAIN ret[1].error = {"type", "message"}
           /\ ret[1].error.message = <<[line |-> "{}", value |-> <<message>>]>>

\* C34: the destination content of each source message: for an array, the
\* texts of the parts whose text is a string, concatenated in order; for a
\* string, the string; a single space in place of a result that is empty or
\* all whitespace, and for a content that is absent.
C34_ContentConversion ==
    Transcoded =>
        \A i \in 1..Len(Src.messages) :
            LET content == Src.messages[i].content
                converted == AfterSystem[i].content
                texts == SelectSeq(content[1].items,
                             LAMBDA part : /\ IsSome(part.text)
                                           /\ part.text[1].kind = "string")
                text == IF content[1].kind = "array"
                        THEN Flatten([k \in 1..Len(texts) |-> texts[k].text[1].str])
                        ELSE content[1].str
                blank == \A k \in 1..Len(text) : text[k] \in {" ", "\n", "\t", "\r"}
            IN IF content = NoneV THEN converted = Some(JString(<<" ">>))
               ELSE content[1].kind \in {"array", "string"} =>
                        converted = Some(JString(IF blank THEN <<" ">> ELSE text))

\* A text part after a part without text, and an array of two spaces, in
\* one request that has a system value.
C34_Witness ==
    /\ Transcoded
    /\ IsSome(Src.system)
    /\ Len(Src.messages) = 2
    /\ Src.messages[1].content = Some(JArray(<<OtherPart(NoneV), TextPart(<<"a">>)>>))
    /\ Src.messages[2].content = Some(JArray(<<TextPart(Space), TextPart(Space)>>))
    /\ Dst.messages[2].content = Some(JString(<<"a">>))
    /\ Dst.messages[3].content = Some(JString(Space))

\* C38: the temperature of the destination request, when there is one, is
\* within [0.0, 2.0], for every source temperature and every model family.
C38_TemperatureInRange ==
    (Transcoded /\ IsSome(Dst.temperature)) =>
        0 <= Dst.temperature[1] /\ Dst.temperature[1] <= 2000

\* C39: openai_to_anthropic drops no tool call: when the message of the
\* first choice has a tool_calls list that is not empty, the content has
\* one tool_use block per call, whatever the message's content; so a result
\* whose stop_reason is tool_use has at least one tool_use block.
C39_ToolCallsKept ==
    (IsCall("openai_to_anthropic") /\ ret[1].ok) =>
        LET tool_calls == First.message.tool_calls
            tool_uses == SelectSeq(ret[1].value.content,
                             LAMBDA block : block.type = "tool_use")
        IN /\ (/\ IsSome(tool_calls) /\ tool_calls[1].kind = "array"
               /\ tool_calls[1].items # <<>>) =>
                  Len(tool_uses) = Len(tool_calls[1].items)
           /\ ret[1].value.stop_reason = Some("tool_use") => tool_uses # <<>>

\* ------------------------------------- properties of the streaming transcoder
\* The events emitted since the last content_block_start.
SinceLastStart(evs) ==
    LET starts == {i \in 1..Len(evs) : evs[i].event = "content_block_start"}
        last == IF starts = {} THEN 0
                ELSE CHOOSE i \in starts : \A j \in starts : j <= i
    IN SubSeq(evs, last + 1, Len(evs))

\* C31: an input_json_delta carries the arguments of the fragment that
\* caused it and nothing else, and the buffer kept for the open tool-call id
\* is the concatenation, in order, of the partial_json values emitted for
\* the open tool_use block.
C31_ArgumentBuffer ==
    /\ \A id \in Opt({"t1", "t2", "t3"}), arguments \in {<<"x">>, <<"y", "z">>} :
          LET tool_call == ToolCall(id, NoneV, Some(arguments))
              r == process_stream_delta(Delta(Some(<<tool_call>>), NoneV), state)
              deltas == OfType(r.events, "content_block_delta")
          IN /\ Len(deltas) <= 1
             /\ \A i \in 1..Len(deltas) :
                   deltas[i].data.delta =
                       [type |-> "input_json_delta", fragment |-> arguments]
    /\ IsSome(state.current_tool_call_id) =>
          LET current_id == state.current_tool_call_id[1]
              emitted == SelectSeq(SinceLastStart(output_lines),
                             LAMBDA e : /\ e.event = "content_block_delta"
                                        /\ e.data.delta.type = "input_json_delta")
          IN /\ current_id \in DOMAIN state.tool_call_json_map
             /\ state.tool_call_json_map[current_id] =
                    Flatten(EmittedFragments(emitted))

\* The call t1 is open for the second time, after t2: its buffer holds the
\* arguments of its second block only.
C31_Witness ==
    /\ state.current_tool_call_id = Some("t1")
    /\ state.content_block_index = 3
    /\ DOMAIN state.tool_call_json_map = {"t1", "t2"}
    /\ state.tool_call_json_map["t1"] = <<"x">>
    /\ state.tool_call_json_map["t2"] = <<"y">>
    /\ Len(OfType(output_lines, "content_block_delta")) = 3

\* C32: a delta with string content and no tool-call fragment (tool_calls
\* absent, null or an empty list) produces a text_delta that carries the
\* content, in whatever state it is read.
C32_TextWithoutToolCalls ==
    \A tool_calls \in {NoneV, Some(<<>>)}, content \in {<<"a">>, <<>>} :
        LET r == process_stream_delta(Delta(tool_calls, Some(content)), state)
        IN /\ r.events # <<>>
           /\ r.events[Len(r.events)] =
                  [event |-> "content_block_delta",
                   data |-> ContentBlockDelta(r.state.content_block_index,
                                              "text_delta", content)]

\* C33: every data line that arrives before the stream ends, in a stream
\* without [DONE], is interpreted exactly once, the last line included when
\* the stream ends without a newline after it: the output is that of the
\* lines received, in order, each once.
C33_EveryLineOnce ==
    (pc = "done" /\ \A i \in 1..Len(lines_in) : lines_in[i] # DoneLine) =>
        LET last == IF buffer # <<>> /\ ParseLine(buffer) # DoneLine
                    THEN <<ParseLine(buffer)>> ELSE <<>>
            r == ProcessLines(lines_in \o last, Fresh)
        IN output_lines = format_sse_event("message_start", MessageStart)
                          \o r.events \o Closing(r.state)

\* C35: in every reachable StreamingState the text-open flag and the
\* tool-use flag are not both true, the tool-use flag is true exactly when
\* a current tool-call id is recorded, and the argument buffer map then has
\* an entry for that id.
C35_FlagsConsistent ==
    /\ ~(state.has_started_text_block /\ state.is_tool_use)
    /\ state.is_tool_use <=> IsSome(state.current_tool_call_id)
    /\ IsSome(state.current_tool_call_id) =>
           state.current_tool_call_id[1] \in DOMAIN state.tool_call_json_map

\* A text block is open after two tool_use blocks: no id is recorded and the
\* map still holds the buffers of both calls.
C35_Witness ==
    /\ state.has_started_text_block /\ ~state.is_tool_use
    /\ state.current_tool_call_id = NoneV
    /\ DOMAIN state.tool_call_json_map = {"t1", "t2"}
    /\ state.content_block_index = 3

\* Every content_block_delta of evs is inside a block, `open` being the
\* block open before evs: it has the index of the block and the delta type
\* of the block's kind.
RECURSIVE DeltasInside(_, _)
DeltasInside(evs, open) ==
    IF evs = <<>> THEN TRUE
    ELSE LET e == evs[1] IN
         IF e.event = "content_block_start"
         THEN DeltasInside(Tail(evs), Some(e.data))
         ELSE IF e.event = "content_block_stop"
         THEN DeltasInside(Tail(evs), NoneV)
         ELSE IF e.event = "content_block_delta"
         THEN /\ IsSome(open)
              /\ e.data.index = open[1].index
              /\ e.data.delta.type =
                     IF open[1].content_block.type = "text" THEN "text_delta"
                     ELSE "input_json_delta"
              /\ open[1].content_block.type \in {"text", "tool_use"}
              /\ DeltasInside(Tail(evs), open)
         ELSE DeltasInside(Tail(evs), open)

\* C36: every content_block_delta is emitted while a block is open, with
\* the index of that block and the delta type of its kind; none comes before
\* the first content_block_start or after a content_block_stop that no
\* start follows.
C36_DeltasInsideBlocks == DeltasInside(output_lines, NoneV)

\* A text block with a text_delta, then a tool_use block with an
\* input_json_delta, after a fragment without id that no block took.
C36_Witness ==
    /\ pc = "done"
    /\ Len(lines_in) = 3
    /\ lines_in[1] = DeltaLine(Delta(Some(<<TcArgs>>), Some(<<"c">>)))
    /\ \E i, j \in 1..Len(output_lines) :
          /\ i < j
          /\ output_lines[i].event = "content_block_delta"
          /\ output_lines[j].event = "content_block_delta"
          /\ output_lines[i].data = ContentBlockDelta(0, "text_delta", <<"a">>)
          /\ output_lines[j].data = ContentBlockDelta(1, "input_json_delta", <<"x">>)

\* C37: for a body whose lines all end with a newline and in which [DONE],
\* if present, is the last line, the output is the same however the body is
\* cut into chunks: it is the output of the body read as one chunk.
C37_ChunkingIndependent ==
    IsCall("format_streaming_response") =>
        ret[1] = format_streaming_response(
                     <<Chunked(call[1].body,
                               [i \in 1..Len(call[1].body) |->
                                   [mode |-> "whole", break |-> FALSE]],
                               <<>>)[1]>>)
====
